---- MODULE Spec2Model ----
(***************************************************************************)
(* Model of the sprite alignment editor of PrepSprites/sprite_pipeline.py: *)
(* the batch stages that produce the aligned sheet (auto_align_sprites,    *)
(* _clean_cell_artifacts_silent, _cache_sprites) and the event loop of     *)
(* interactive_alignment_tool with _rebuild_aligned_image and              *)
(* _erase_at_position.                                                     *)
(*                                                                         *)
(* An image is a record [w, h, px] with px[y][x] a pixel, as the numpy     *)
(* array of shape (h, w, 4) the code works on.  A pixel is <<rgb, alpha>>: *)
(* rgb abstracts the three colour channels to one colour number (0 is      *)
(* black), alpha is the alpha channel.                                     *)
(***************************************************************************)
EXTENDS Integers, Sequences, FiniteSets, TLC

VARIABLES
    final_img,          \* the image held by the locals img, img_small and
                        \* final_img of clean_sprite and pixel_perfect_cleanup;
                        \* between quantization and putalpha, the colours of
                        \* final_img with the alpha of img_small
    cleaned_image,      \* self.cleaned_image: the sheet the grid was laid on
    rows, cols,         \* self.rows, self.cols
    sprite_width,       \* self.sprite_width
    sprite_height,      \* self.sprite_height
    aligned_image,      \* self.aligned_image: the canvas
    sprite_offsets,     \* self.sprite_offsets: (row, col) -> (x_offset, y_offset)
    sprite_cache,       \* self.sprite_cache: (row, col) -> cell pixels
    undo_stack,         \* local undo_stack of the editor
    running,            \* local running
    selected_cell,      \* local selected_cell, None or (row, col)
    eraser_mode,        \* local eraser_mode
    eraser_size,        \* local eraser_size
    mouse_pressed,      \* local mouse_pressed
    current_erase_cell, \* local current_erase_cell, None or (row, col)
    phase,              \* where the run is: "grid", "aligned", "editor", "closed",
                        \* "crashed", and the steps of the batch stages
    pushed,             \* history: the undo stack as it would be with no limit;
                        \* in the batch stages, the images handed to the
                        \* alpha threshold and to the despeckler
    edits,              \* history: number of edits (offset keys, erasures, size keys)
    params,             \* the values ask_number has returned to clean_sprite
    alignment_done,     \* hasattr(self, '_alignment_done')
    frames,             \* self.frames: (row, col) -> frame pixels
    exported,           \* the files written by export_sprite_sheet: name -> image
    log                 \* history: the stages of run() entered and the events
                        \* that ended the windows, in order

gridVars == <<final_img, cleaned_image, rows, cols, sprite_width, sprite_height>>
docVars  == <<aligned_image, sprite_offsets, sprite_cache, undo_stack>>
uiVars   == <<running, selected_cell, eraser_mode, eraser_size, mouse_pressed,
              current_erase_cell>>
histVars == <<pushed, edits>>
runVars  == <<params, alignment_done, frames, exported, log>>
vars     == <<gridVars, docVars, uiVars, phase, histVars, runVars>>

----------------------------------------------------------------------------
(* Bounds of the exploration *)

\* edits explored in a session of Spec
MaxEdits == 2
\* eraser strokes explored in a session of SpecUndo
MaxStrokes == 22
\* drag points explored in a session of SpecUndo
MaxDrags == 1
\* offset keys explored in a session of SpecNudge
MaxNudges == 2
\* edits explored in a run of SpecRun, over all its sessions
MaxRunEdits == 1
\* returns from the preview to the alignment tool explored in a run of SpecRun
MaxReturns == 1

(* Program constants *)

UNDO_LIMIT == 20
ERASER_MAX == 20
ERASER_MIN == 1
ERASER_INIT == 3
BORDER_X == 20
BORDER_Y == 50
CLEAN_MARGIN == 2
MOVE_STEP == 1
MOVE_SHIFT_STEP == 5
WINDOW_FIT_W == 800
WINDOW_FIT_H == 600
MAX_SCALE == 4

None == <<>>

Min2(a, b) == IF a <= b THEN a ELSE b
Max2(a, b) == IF a >= b THEN a ELSE b
SetMin(S) == CHOOSE m \in S : \A n \in S : m <= n
SetMax(S) == CHOOSE m \in S : \A n \in S : m >= n

----------------------------------------------------------------------------
(* Pixels and images *)

ZERO == <<0, 0>>
Alpha(p) == p[2]

\* v itself; comparing v makes TLC compute its arrays once, here, instead of
\* at every later read of one of their elements
Force(v) == IF v = v THEN v ELSE v

Blank(w, h) ==
    Force([w |-> w, h |-> h,
           px |-> [y \in 0..(h-1) |-> [x \in 0..(w-1) |-> ZERO]]])

\* arr[y0:y0+h, x0:x0+w] for a region inside the array
Crop(img, x0, y0, w, h) ==
    Force([w |-> w, h |-> h,
           px |-> [y \in 0..(h-1) |-> [x \in 0..(w-1) |->
                      img.px[y0 + y][x0 + x]]]])

\* the grid cell (row, col) of an image
CellOf(img, row, col) ==
    Crop(img, col * sprite_width, row * sprite_height, sprite_width, sprite_height)

Cells == (0..(rows-1)) \X (0..(cols-1))

\* np.where(alpha > 0): the rows and the columns that hold a pixel with alpha > 0
OpaqueYs(cell) ==
    {y \in 0..(cell.h-1) : \E x \in 0..(cell.w-1) : Alpha(cell.px[y][x]) > 0}
OpaqueXs(cell) ==
    {x \in 0..(cell.w-1) : \E y \in 0..(cell.h-1) : Alpha(cell.px[y][x]) > 0}
IsEmpty(cell) == OpaqueYs(cell) = {}

\* the bounding box of a non-empty cell
BBox(cell) ==
    [min_y |-> SetMin(OpaqueYs(cell)), max_y |-> SetMax(OpaqueYs(cell)),
     min_x |-> SetMin(OpaqueXs(cell)), max_x |-> SetMax(OpaqueXs(cell))]

\* cell[min_y:max_y+1, min_x:max_x+1]
SpriteOf(cell) ==
    LET b == BBox(cell)
    IN  Crop(cell, b.min_x, b.min_y, b.max_x - b.min_x + 1, b.max_y - b.min_y + 1)

----------------------------------------------------------------------------
(* numpy slice assignment  arr[dy:dy+h, dx:dx+w] = sprite *)

\* a slice bound as Python normalises it on an axis of length n
NpIndex(i, n) == IF i < 0 THEN Max2(i + n, 0) ELSE Min2(i, n)
NpLo(start, n) == NpIndex(start, n)
NpLen(start, stop, n) == Max2(0, NpIndex(stop, n) - NpIndex(start, n))

\* the value broadcasts into the target slice
Broadcasts(sprite, lw, lh) ==
    /\ (sprite.h = lh \/ sprite.h = 1)
    /\ (sprite.w = lw \/ sprite.w = 1)

\* the array after the assignment, when it broadcasts
Assigned(arr, sprite, dest_x, dest_y) ==
    LET x0 == NpLo(dest_x, arr.w)
        y0 == NpLo(dest_y, arr.h)
        lw == NpLen(dest_x, dest_x + sprite.w, arr.w)
        lh == NpLen(dest_y, dest_y + sprite.h, arr.h)
    IN  Force([arr EXCEPT !.px =
            [y \in 0..(arr.h-1) |-> [x \in 0..(arr.w-1) |->
                IF /\ y0 <= y /\ y < y0 + lh
                   /\ x0 <= x /\ x < x0 + lw
                THEN sprite.px[IF sprite.h = 1 THEN 0 ELSE y - y0]
                              [IF sprite.w = 1 THEN 0 ELSE x - x0]
                ELSE arr.px[y][x]]]])

\* [ok, arr]: ok is FALSE when numpy raises ValueError (shape mismatch)
SliceAssign(arr, sprite, dest_x, dest_y) ==
    LET lw == NpLen(dest_x, dest_x + sprite.w, arr.w)
        lh == NpLen(dest_y, dest_y + sprite.h, arr.h)
    IN  IF Broadcasts(sprite, lw, lh)
        THEN [ok |-> TRUE, arr |-> Assigned(arr, sprite, dest_x, dest_y)]
        ELSE [ok |-> FALSE, arr |-> arr]

----------------------------------------------------------------------------
(* Batch stages *)

\* a mask that starts one pixel inside the bounding box on the left and above
CleanedCellShaved(cell) ==
    LET b == BBox(cell)
        min_y == IF cell.h > 1 THEN b.min_y + 1 ELSE 0
        max_y == Min2(sprite_height - 1, b.max_y + CLEAN_MARGIN)
        min_x == IF cell.w > 1 THEN b.min_x + 1 ELSE 0
        max_x == Min2(sprite_width - 1, b.max_x + CLEAN_MARGIN)
    IN  Force([cell EXCEPT !.px =
            [y \in 0..(cell.h-1) |-> [x \in 0..(cell.w-1) |->
                IF min_y <= y /\ y <= max_y /\ min_x <= x /\ x <= max_x
                THEN cell.px[y][x] ELSE ZERO]]])

\* a mask of the margin around the top left corner of the bounding box only
CleanedCellCorner(cell) ==
    LET b == BBox(cell)
        min_y == Max2(0, b.min_y - CLEAN_MARGIN)
        max_y == Min2(sprite_height - 1, b.min_y + CLEAN_MARGIN)
        min_x == Max2(0, b.min_x - CLEAN_MARGIN)
        max_x == Min2(sprite_width - 1, b.min_x + CLEAN_MARGIN)
    IN  Force([cell EXCEPT !.px =
            [y \in 0..(cell.h-1) |-> [x \in 0..(cell.w-1) |->
                IF min_y <= y /\ y <= max_y /\ min_x <= x /\ x <= max_x
                THEN cell.px[y][x] ELSE ZERO]]])

\* the cell with the pixels outside the margin-expanded bounding box zeroed
CleanedCell(cell) ==
    LET b == BBox(cell)
        min_y == Max2(0, b.min_y - CLEAN_MARGIN)
        max_y == Min2(sprite_height - 1, b.max_y + CLEAN_MARGIN)
        min_x == Max2(0, b.min_x - CLEAN_MARGIN)
        max_x == Min2(sprite_width - 1, b.max_x + CLEAN_MARGIN)
    IN  Force([cell EXCEPT !.px =
            [y \in 0..(cell.h-1) |-> [x \in 0..(cell.w-1) |->
                IF min_y <= y /\ y <= max_y /\ min_x <= x /\ x <= max_x
                THEN cell.px[y][x] ELSE ZERO]]])

NumOpaque(cell) ==
    Cardinality({p \in (0..(cell.w-1)) \X (0..(cell.h-1)) :
                    Alpha(cell.px[p[2]][p[1]]) > 0})

\* before_count - after_count of one cell
RemovedInCell(cell) ==
    IF IsEmpty(cell) THEN 0 ELSE NumOpaque(cell) - NumOpaque(CleanedCell(cell))

RECURSIVE SumRemoved(_, _)
SumRemoved(img, k) ==
    IF k = rows * cols THEN 0
    ELSE RemovedInCell(CellOf(img, k \div cols, k % cols)) + SumRemoved(img, k + 1)

\* _clean_cell_artifacts_silent: a fresh transparent array into which the cleaned
\* cell of every non-empty cell is placed; the cells are disjoint, so the
\* result is given pixel by pixel.  [img, removed]
CleanCellArtifacts(img) ==
    LET placed == Force([c \in Cells |->
                    LET cell == CellOf(img, c[1], c[2])
                    IN  IF IsEmpty(cell) THEN Blank(sprite_width, sprite_height)
                        ELSE CleanedCell(cell)])
    IN  [img |->
            Force([img EXCEPT !.px =
                [y \in 0..(img.h-1) |-> [x \in 0..(img.w-1) |->
                    IF x < cols * sprite_width /\ y < rows * sprite_height
                    THEN placed[<<y \div sprite_height, x \div sprite_width>>]
                            .px[y % sprite_height][x % sprite_width]
                    ELSE ZERO]]]),
         removed |-> SumRemoved(img, 0)]

\* aloft decided by the top edge of the bounding box instead of its centre
IsJumpingByTop(cell) == 3 * BBox(cell).min_y < sprite_height

\* offsets with the x offset computed as sprite_width - (w // 2)
AutoOffsetUnbracketed(cell) ==
    LET sprite == SpriteOf(cell)
        y_offset == IF 6 * BBox(cell).min_y + 3 * sprite.h < 2 * sprite_height
                    THEN (sprite_height - sprite.h) \div 2
                    ELSE sprite_height - sprite.h
        x_offset == IF sprite.w <= sprite_width
                    THEN sprite_width - (sprite.w \div 2)
                    ELSE 0
    IN  <<x_offset, y_offset>>

\* offsets of auto_align_sprites for a non-empty cell
\* sprite_center_y < sprite_height / 3 in floats is 6*min_y + 3*h < 2*sprite_height
IsJumping(cell) ==
    LET b == BBox(cell)
        sprite_h == b.max_y - b.min_y + 1
    IN  6 * b.min_y + 3 * sprite_h < 2 * sprite_height

AutoOffset(cell) ==
    LET sprite == SpriteOf(cell)
        y_offset == IF IsJumping(cell)
                    THEN (sprite_height - sprite.h) \div 2
                    ELSE sprite_height - sprite.h
        x_offset == IF sprite.w <= sprite_width
                    THEN (sprite_width - sprite.w) \div 2
                    ELSE 0
    IN  <<x_offset, y_offset>>

\* a dict with key set to value
DictSet(d, key, value) ==
    [k \in (DOMAIN d) \cup {key} |-> IF k = key THEN value ELSE d[k]]

EmptyDict == [k \in {} |-> None]

\* d.get(key, (0, 0))
DictGet(d, key) == IF key \in DOMAIN d THEN d[key] ELSE <<0, 0>>

RECURSIVE AutoAlignFrom(_, _, _, _)
AutoAlignFrom(img, k, arr, offs) ==
    IF k = rows * cols THEN [img |-> arr, offsets |-> offs]
    ELSE LET row == k \div cols
             col == k % cols
             cell == CellOf(img, row, col)
         IN  IF IsEmpty(cell) THEN AutoAlignFrom(img, k + 1, arr, offs)
             ELSE LET off == AutoOffset(cell)
                      dest_y == row * sprite_height + off[2]
                      dest_x == col * sprite_width + off[1]
                  IN  AutoAlignFrom(img, k + 1,
                         Assigned(arr, SpriteOf(cell), dest_x, dest_y),
                         DictSet(offs, <<row, col>>, off))

\* an alignment that records an offset for every cell of the grid
AutoAlignAllCells(img) ==
    LET aligned == AutoAlignFrom(img, 0, Blank(img.w, img.h), EmptyDict)
    IN  [img |-> aligned.img,
         offsets |-> [c \in Cells |-> DictGet(aligned.offsets, c)]]

\* an alignment that draws the sprites over the sheet instead of a new array
AutoAlignInPlace(img) == AutoAlignFrom(img, 0, img, EmptyDict)

\* auto_align_sprites: [img, offsets]
AutoAlign(img) == AutoAlignFrom(img, 0, Blank(img.w, img.h), EmptyDict)

\* _cache_sprites
CacheSprites(img) == Force([c \in Cells |-> CellOf(img, c[1], c[2])])

----------------------------------------------------------------------------
(* Rebuild *)

\* the bounds check of _rebuild_aligned_image
FitsCanvas(arr, sprite, dest_x, dest_y) ==
    dest_y + sprite.h <= arr.h /\ dest_x + sprite.w <= arr.w

\* a loop body that places the cached cell whole instead of its bounding box
RebuildCellWhole(arr, cache, offsets, row, col) ==
    IF <<row, col>> \notin DOMAIN cache THEN [ok |-> TRUE, arr |-> arr]
    ELSE LET cell == cache[<<row, col>>]
         IN  IF IsEmpty(cell) THEN [ok |-> TRUE, arr |-> arr]
             ELSE LET off == DictGet(offsets, <<row, col>>)
                      dest_y == row * sprite_height + off[2]
                      dest_x == col * sprite_width + off[1]
                  IN  IF FitsCanvas(arr, cell, dest_x, dest_y)
                      THEN SliceAssign(arr, cell, dest_x, dest_y)
                      ELSE [ok |-> TRUE, arr |-> arr]

\* one cell of the loop of _rebuild_aligned_image: [ok, arr]
RebuildCell(arr, cache, offsets, row, col) ==
    IF <<row, col>> \notin DOMAIN cache THEN [ok |-> TRUE, arr |-> arr]
    ELSE LET cell == cache[<<row, col>>]
         IN  IF IsEmpty(cell) THEN [ok |-> TRUE, arr |-> arr]
             ELSE LET sprite == SpriteOf(cell)
                      off == DictGet(offsets, <<row, col>>)
                      dest_y == row * sprite_height + off[2]
                      dest_x == col * sprite_width + off[1]
                  IN  IF FitsCanvas(arr, sprite, dest_x, dest_y)
                      THEN SliceAssign(arr, sprite, dest_x, dest_y)
                      ELSE [ok |-> TRUE, arr |-> arr]

RECURSIVE RebuildFrom(_, _, _, _)
RebuildFrom(k, arr, cache, offsets) ==
    IF k = rows * cols THEN [ok |-> TRUE, arr |-> arr]
    ELSE LET r == RebuildCell(arr, cache, offsets, k \div cols, k % cols)
         IN  IF r.ok THEN RebuildFrom(k + 1, r.arr, cache, offsets)
             ELSE r

\* the canvas left when the loop is abandoned half way and the array built so
\* far is stored
CommitPartial(prior, built) == CleanCellArtifacts(built.arr).img

\* the loop run on the live canvas instead of a fresh array
ComposeInPlace(prior, cache, offsets) == RebuildFrom(0, prior, cache, offsets)

\* the loop of _rebuild_aligned_image over a fresh transparent array of the
\* canvas' size: [ok, arr], ok FALSE when an assignment raised, arr the array
\* built so far
Compose(prior, cache, offsets) ==
    RebuildFrom(0, Blank(prior.w, prior.h), cache, offsets)

\* self.aligned_image after _rebuild_aligned_image: the assignment of line 627
\* and the clean of line 630 are reached only when the loop has finished
Commit(prior, built) ==
    IF built.ok THEN CleanCellArtifacts(built.arr).img ELSE prior

\* _rebuild_aligned_image: [ok, img]
RebuildAlignedImage(prior, cache, offsets) ==
    LET built == Compose(prior, cache, offsets)
    IN  [ok |-> built.ok, img |-> Commit(prior, built)]

----------------------------------------------------------------------------
(* Eraser *)

\* scale of interactive_alignment_tool
Scale(img) ==
    Max2(1, Min2(Min2(WINDOW_FIT_W \div img.w, WINDOW_FIT_H \div img.h), MAX_SCALE))

\* the cell under the pointer, None outside the grid
GridCell(mx, my, scale) ==
    LET grid_x == mx \div (sprite_width * scale)
        grid_y == my \div (sprite_height * scale)
    IN  IF 0 <= grid_x /\ grid_x < cols /\ 0 <= grid_y /\ grid_y < rows
        THEN <<grid_y, grid_x>> ELSE None

\* the bounds erasing is constrained to
EraseBounds(img, cell) ==
    IF cell # None
    THEN [x_min |-> cell[2] * sprite_width,
          x_max |-> (cell[2] + 1) * sprite_width - 1,
          y_min |-> cell[1] * sprite_height,
          y_max |-> (cell[1] + 1) * sprite_height - 1]
    ELSE [x_min |-> 0, x_max |-> img.w - 1, y_min |-> 0, y_max |-> img.h - 1]

\* the pixel (px, py) is made transparent by the brush at (img_x, img_y)
Erased(img, img_x, img_y, radius, cell, px, py) ==
    LET dx == px - img_x
        dy == py - img_y
        b == EraseBounds(img, cell)
    IN  /\ -radius <= dx /\ dx <= radius /\ -radius <= dy /\ dy <= radius
        /\ dx * dx + dy * dy <= radius * radius
        /\ 0 <= px /\ px < img.w /\ 0 <= py /\ py < img.h
        /\ b.x_min <= px /\ px <= b.x_max
        /\ b.y_min <= py /\ py <= b.y_max

\* _erase_at_position: [img, cache]
EraseAtPosition(img, cache, mx, my, scale, radius, cell) ==
    LET img_x == mx \div scale
        img_y == my \div scale
    IN  IF img_x < 0 \/ img_y < 0 \/ img_x >= img.w \/ img_y >= img.h
        THEN [img |-> img, cache |-> cache]
        ELSE LET erased ==
                    Force([img EXCEPT !.px =
                        [y \in 0..(img.h-1) |-> [x \in 0..(img.w-1) |->
                            IF Erased(img, img_x, img_y, radius, cell, x, y)
                            THEN ZERO ELSE img.px[y][x]]]])
             IN  [img |-> erased,
                  cache |-> IF cell # None
                            THEN [cache EXCEPT
                                    ![cell] = CellOf(erased, cell[1], cell[2])]
                            ELSE cache]

----------------------------------------------------------------------------
(* Input sheets *)

\* a w x h sheet whose pixels at the coordinates in opaque are opaque, each of
\* a colour of its own, and whose pixels at the coordinates in tinted are
\* transparent with a colour left in the colour channels
Sheet(w, h, opaque, tinted) ==
    Force([w |-> w, h |-> h,
           px |-> [y \in 0..(h-1) |-> [x \in 0..(w-1) |->
                      IF <<x, y>> \in opaque THEN <<1 + x + y * w, 255>>
                      ELSE IF <<x, y>> \in tinted THEN <<1, 0>>
                      ELSE ZERO]]])

\* the sheets and grids an editing session is explored on: 9 x 2 pixels in
\* 1 row of 2 columns (cells of 4 x 2 and a leftover strip at x = 8)
InputSheets ==
    { [img |-> Sheet(9, 2, {<<0, 1>>, <<1, 1>>, <<2, 1>>, <<3, 1>>,
                            <<4, 1>>, <<5, 1>>, <<6, 1>>, <<7, 1>>}, {}),
       rows |-> 1, cols |-> 2],
      [img |-> Sheet(9, 2, {<<5, 0>>}, {<<0, 0>>}),
       rows |-> 1, cols |-> 2] }

----------------------------------------------------------------------------
(* The pipeline up to the editor *)

\* self.aligned_image = None
NoImage == [w |-> 0, h |-> 0, px |-> <<>>]

\* __init__: self.frames = [], no _alignment_done attribute, nothing asked
\* and nothing written yet
InitRun ==
    /\ params = <<>>
    /\ alignment_done = FALSE
    /\ frames = <<>>
    /\ exported = EmptyDict
    /\ log = <<>>

\* __init__, the sheet chosen, and get_grid_dimensions
InitFrom(sheet) ==
    /\ InitRun
    /\ final_img = NoImage
    /\ cleaned_image = sheet.img
    /\ rows = sheet.rows
    /\ cols = sheet.cols
    /\ sprite_width = sheet.img.w \div sheet.cols
    /\ sprite_height = sheet.img.h \div sheet.rows
    /\ aligned_image = NoImage
    /\ sprite_offsets = EmptyDict
    /\ sprite_cache = EmptyDict
    /\ undo_stack = <<>>
    /\ running = FALSE
    /\ selected_cell = None
    /\ eraser_mode = FALSE
    /\ eraser_size = ERASER_INIT
    /\ mouse_pressed = FALSE
    /\ current_erase_cell = None
    /\ phase = "grid"
    /\ pushed = <<>>
    /\ edits = 0

Init == \E sheet \in InputSheets : InitFrom(sheet)

\* __init__ alone: no sheet and no grid yet, with the image a batch stage
\* holds in its locals
InitPipeline(img, at) ==
    /\ InitRun
    /\ final_img = img
    /\ cleaned_image = NoImage
    /\ rows = None
    /\ cols = None
    /\ sprite_width = None
    /\ sprite_height = None
    /\ aligned_image = NoImage
    /\ sprite_offsets = EmptyDict
    /\ sprite_cache = EmptyDict
    /\ undo_stack = <<>>
    /\ running = FALSE
    /\ selected_cell = None
    /\ eraser_mode = FALSE
    /\ eraser_size = ERASER_INIT
    /\ mouse_pressed = FALSE
    /\ current_erase_cell = None
    /\ phase = at
    /\ pushed = <<>>
    /\ edits = 0

\* the alignment run again at every pass of the loop of run()
AlignStageEveryPass ==
    /\ \/ phase = "grid"
       \/ phase = "aligned" /\ log # <<>> /\ log[Len(log)] = "a"
    /\ LET aligned == AutoAlign(cleaned_image)
       IN  /\ aligned_image' = CleanCellArtifacts(aligned.img).img
           /\ sprite_offsets' = aligned.offsets
    /\ alignment_done' = TRUE
    /\ log' = log \o <<"auto_align_sprites", "clean_cell_artifacts">>
    /\ phase' = "aligned"
    /\ UNCHANGED <<gridVars, sprite_cache, undo_stack, uiVars, histVars, params,
                   frames, exported>>

\* run, steps 4 and 5: auto_align_sprites and clean_cell_artifacts
AlignStage ==
    /\ phase = "grid" /\ ~alignment_done
    /\ LET aligned == AutoAlign(cleaned_image)
       IN  /\ aligned_image' = CleanCellArtifacts(aligned.img).img
           /\ sprite_offsets' = aligned.offsets
    /\ alignment_done' = TRUE
    /\ log' = log \o <<"auto_align_sprites", "clean_cell_artifacts">>
    /\ phase' = "aligned"
    /\ UNCHANGED <<gridVars, sprite_cache, undo_stack, uiVars, histVars, params,
                   frames, exported>>

\* interactive_alignment_tool up to its event loop; the cache is captured
\* when the object has no sprite_cache attribute yet
OpenTool ==
    /\ phase = "aligned"
    /\ sprite_cache' = IF sprite_cache = EmptyDict
                       THEN CacheSprites(aligned_image) ELSE sprite_cache
    /\ undo_stack' = <<>>
    /\ running' = TRUE
    /\ selected_cell' = None
    /\ eraser_mode' = FALSE
    /\ eraser_size' = ERASER_INIT
    /\ mouse_pressed' = FALSE
    /\ current_erase_cell' = None
    /\ phase' = "editor"
    /\ log' = Append(log, "interactive_alignment_tool")
    /\ UNCHANGED <<gridVars, aligned_image, sprite_offsets, histVars, params,
                   alignment_done, frames, exported>>

----------------------------------------------------------------------------
(* The event loop of interactive_alignment_tool, one action per event.  A    *)
(* quit is taken to be the last event of its frame: the handlers never read  *)
(* running, so the events pygame may queue behind a quit in the same frame   *)
(* are the events below from a state that differs in running alone.          *)

\* the events that end the tool
EndEvents == {"QUIT", "RETURN", "ESCAPE"}

\* pygame.QUIT, K_RETURN / K_KP_ENTER, K_ESCAPE: running = False, the loop ends
\* with the frame and the tool returns, its local variables gone with it
Quit(event) ==
    /\ phase = "editor" /\ running
    /\ log' = Append(log, event)
    /\ running' = FALSE
    /\ phase' = "closed"
    /\ undo_stack' = <<>>
    /\ selected_cell' = None
    /\ eraser_mode' = FALSE
    /\ eraser_size' = ERASER_INIT
    /\ mouse_pressed' = FALSE
    /\ current_erase_cell' = None
    /\ UNCHANGED <<gridVars, aligned_image, sprite_offsets, sprite_cache,
                   histVars, params, alignment_done, frames, exported>>

\* a K_e that leaves the selection as it is
EraserKeyKeepsCell(mode, cell) == [eraser_mode |-> ~mode, selected_cell |-> cell]

\* K_e: eraser_mode and selected_cell after the key
EraserKey(mode, cell) ==
    [eraser_mode |-> ~mode, selected_cell |-> IF ~mode THEN None ELSE cell]

\* a move of one pixel whether Shift is held or not
KeyOffsetShiftless(off, key, shift) ==
    CASE key = "LEFT"  -> <<off[1] - MOVE_STEP, off[2]>>
      [] key = "RIGHT" -> <<off[1] + MOVE_STEP, off[2]>>
      [] key = "UP"    -> <<off[1], off[2] - MOVE_STEP>>
      [] key = "DOWN"  -> <<off[1], off[2] + MOVE_STEP>>
      [] key = "c"     -> <<0, off[2]>>
      [] key \in {"b", "t"} -> <<off[1], 0>>
      [] OTHER         -> off

\* K_e
ToggleEraser ==
    /\ phase = "editor" /\ running
    /\ eraser_mode' = EraserKey(eraser_mode, selected_cell).eraser_mode
    /\ selected_cell' = EraserKey(eraser_mode, selected_cell).selected_cell
    /\ UNCHANGED <<runVars, gridVars, docVars, running, eraser_size, mouse_pressed,
                   current_erase_cell, phase, histVars>>

\* an undo that takes the oldest snapshot and keeps the cache as it is
UndoOldest(stack, img, cache) ==
    IF stack # <<>>
    THEN [img |-> Head(stack), stack |-> Tail(stack), cache |-> cache]
    ELSE [img |-> img, stack |-> stack, cache |-> cache]

\* an undo that blanks the canvas when there is no snapshot
UndoBlank(stack, img, cache) ==
    IF stack # <<>>
    THEN [img |-> stack[Len(stack)],
          stack |-> SubSeq(stack, 1, Len(stack) - 1),
          cache |-> CacheSprites(stack[Len(stack)])]
    ELSE [img |-> Blank(img.w, img.h), stack |-> stack,
          cache |-> CacheSprites(Blank(img.w, img.h))]

\* the K_z branch: [img, stack, cache] after undo_stack.pop() and
\* _cache_sprites, or as they were when the stack is empty
UndoResult(stack, img, cache) ==
    IF stack # <<>>
    THEN [img |-> stack[Len(stack)],
          stack |-> SubSeq(stack, 1, Len(stack) - 1),
          cache |-> CacheSprites(stack[Len(stack)])]
    ELSE [img |-> img, stack |-> stack, cache |-> cache]

\* an undo that also puts the offsets back to those of the alignment
UndoResetsOffsets ==
    /\ phase = "editor" /\ running
    /\ LET res == UndoResult(undo_stack, aligned_image, sprite_cache)
       IN  /\ aligned_image' = res.img
           /\ undo_stack' = res.stack
           /\ sprite_cache' = res.cache
    /\ sprite_offsets' = IF undo_stack # <<>> THEN AutoAlign(cleaned_image).offsets
                         ELSE sprite_offsets
    /\ pushed' = IF undo_stack # <<>> THEN SubSeq(pushed, 1, Len(pushed) - 1)
                 ELSE pushed
    /\ UNCHANGED <<runVars, gridVars, uiVars, phase, edits>>

\* K_z with KMOD_CTRL
Undo ==
    /\ phase = "editor" /\ running
    /\ LET res == UndoResult(undo_stack, aligned_image, sprite_cache)
       IN  /\ aligned_image' = res.img
           /\ undo_stack' = res.stack
           /\ sprite_cache' = res.cache
    /\ pushed' = IF undo_stack # <<>> THEN SubSeq(pushed, 1, Len(pushed) - 1)
                 ELSE pushed
    /\ UNCHANGED <<runVars, gridVars, sprite_offsets, uiVars, phase, edits>>

\* a size-increase key with no upper limit
SizeUpUnclamped(can, cost) ==
    /\ phase = "editor" /\ running
    /\ can
    /\ eraser_size' = eraser_size + 1
    /\ edits' = edits + cost
    /\ UNCHANGED <<runVars, gridVars, docVars, running, selected_cell, eraser_mode,
                   mouse_pressed, current_erase_cell, phase, pushed>>

\* K_RIGHTBRACKET, K_EQUALS, K_PLUS
SizeUp(can, cost) ==
    /\ phase = "editor" /\ running
    /\ can
    /\ eraser_size' = Min2(ERASER_MAX, eraser_size + 1)
    /\ edits' = edits + cost
    /\ UNCHANGED <<runVars, gridVars, docVars, running, selected_cell, eraser_mode,
                   mouse_pressed, current_erase_cell, phase, pushed>>

\* K_LEFTBRACKET, K_MINUS
SizeDown(can, cost) ==
    /\ phase = "editor" /\ running
    /\ can
    /\ eraser_size' = Max2(ERASER_MIN, eraser_size - 1)
    /\ edits' = edits + cost
    /\ UNCHANGED <<runVars, gridVars, docVars, running, selected_cell, eraser_mode,
                   mouse_pressed, current_erase_cell, phase, pushed>>

\* the keys that reach the last branch of the KEYDOWN chain; "r" stands for
\* K_r and for every key the chain has no case for
OtherKeys == {"LEFT", "RIGHT", "UP", "DOWN", "c", "b", "t", "r"}

\* the offset the key leaves for the selected cell
KeyOffset(off, key, shift) ==
    LET move == IF shift THEN MOVE_SHIFT_STEP ELSE MOVE_STEP
    IN  CASE key = "LEFT"  -> <<off[1] - move, off[2]>>
          [] key = "RIGHT" -> <<off[1] + move, off[2]>>
          [] key = "UP"    -> <<off[1], off[2] - move>>
          [] key = "DOWN"  -> <<off[1], off[2] + move>>
          [] key = "c"     -> <<0, off[2]>>
          [] key = "b"     -> <<off[1], 0>>
          [] key = "t"     -> <<off[1], 0>>
          [] OTHER         -> off

\* the key with a cell selected and eraser mode off: the offset is stored and
\* the canvas rebuilt; a ValueError of the rebuild ends the program
OffsetKeyOn(key, shift) ==
    /\ phase = "editor" /\ running
    /\ selected_cell # None /\ ~eraser_mode
    /\ LET off == KeyOffset(DictGet(sprite_offsets, selected_cell), key, shift)
           offs == DictSet(sprite_offsets, selected_cell, off)
           built == RebuildAlignedImage(aligned_image, sprite_cache, offs)
       IN  /\ sprite_offsets' = offs
           /\ aligned_image' = built.img
           /\ phase' = IF built.ok THEN phase ELSE "crashed"
    /\ UNCHANGED <<runVars, gridVars, sprite_cache, undo_stack, uiVars, pushed>>

\* the keys explored: Shift is explored with the arrows, the keys that read it
KeyPresses ==
    (OtherKeys \X {FALSE}) \cup ({"LEFT", "RIGHT", "UP", "DOWN"} \X {TRUE})

OffsetKey(can, cost) ==
    /\ can
    /\ edits' = edits + cost
    /\ \E k \in KeyPresses : OffsetKeyOn(k[1], k[2])

\* the key with no cell selected or eraser mode on: no branch is taken
IgnoredKey ==
    /\ phase = "editor" /\ running
    /\ ~(selected_cell # None /\ ~eraser_mode)
    /\ UNCHANGED vars

\* the image pixels the pointer is explored on: the first column and every
\* row of every cell, the pixels of the leftover strips, and one pixel beyond
\* each side of the image
EdgeXs ==
    {c * sprite_width : c \in 0..(cols-1)}
        \cup ((cols * sprite_width)..(cleaned_image.w - 1))
EdgeYs == 0..(cleaned_image.h - 1)
ImagePoints ==
    (EdgeXs \X EdgeYs)
        \cup {<<-1, 0>>, <<cleaned_image.w, 0>>, <<0, -1>>, <<0, cleaned_image.h>>}

\* event.pos of a pointer inside the image pixel p
PointerAt(p) ==
    <<BORDER_X + Scale(cleaned_image) * p[1] + 1,
      BORDER_Y + Scale(cleaned_image) * p[2] + 1>>
Pointers == {PointerAt(p) : p \in ImagePoints}

\* a push that refuses the new snapshot when the stack is full
PushKeepOldest(stack, img) ==
    IF Len(stack) >= UNDO_LIMIT THEN stack ELSE Append(stack, img)

\* the undo stack after the push of a press
PushUndo(stack, img) ==
    LET s == Append(stack, img)
    IN  IF Len(s) > UNDO_LIMIT THEN Tail(s) ELSE s

\* MOUSEBUTTONDOWN at event.pos = (ex, ey) in eraser mode
ErasePressAt(ex, ey) ==
    /\ phase = "editor" /\ running
    /\ eraser_mode
    /\ LET mx == ex - BORDER_X
           my == ey - BORDER_Y
           scale == Scale(cleaned_image)
           cell == GridCell(mx, my, scale)
           res == EraseAtPosition(aligned_image, sprite_cache, mx, my, scale,
                                  eraser_size, cell)
       IN  /\ current_erase_cell' = cell
           /\ aligned_image' = res.img
           /\ sprite_cache' = res.cache
    /\ mouse_pressed' = TRUE
    /\ undo_stack' = PushUndo(undo_stack, aligned_image)
    /\ pushed' = Append(pushed, aligned_image)
    /\ UNCHANGED <<runVars, gridVars, sprite_offsets, running, selected_cell, eraser_mode,
                   eraser_size, phase>>

ErasePress(can, cost) ==
    /\ can
    /\ edits' = edits + cost
    /\ \E pos \in Pointers : ErasePressAt(pos[1], pos[2])

\* a click that selects the cell its coordinates give, inside the grid or not
SelectPressAnywhere ==
    /\ phase = "editor" /\ running
    /\ ~eraser_mode
    /\ \E pos \in Pointers :
         LET scale == Scale(cleaned_image)
         IN  selected_cell' = <<(pos[2] - BORDER_Y) \div (sprite_height * scale),
                                (pos[1] - BORDER_X) \div (sprite_width * scale)>>
    /\ mouse_pressed' = TRUE
    /\ UNCHANGED <<runVars, gridVars, docVars, running, eraser_mode, eraser_size,
                   current_erase_cell, phase, histVars>>

\* MOUSEBUTTONDOWN with eraser mode off
SelectPress ==
    /\ phase = "editor" /\ running
    /\ ~eraser_mode
    /\ \E pos \in Pointers :
         LET cell == GridCell(pos[1] - BORDER_X, pos[2] - BORDER_Y,
                              Scale(cleaned_image))
         IN  selected_cell' = IF cell # None THEN cell ELSE selected_cell
    /\ mouse_pressed' = TRUE
    /\ UNCHANGED <<runVars, gridVars, docVars, running, eraser_mode, eraser_size,
                   current_erase_cell, phase, histVars>>

\* MOUSEBUTTONUP
Release ==
    /\ phase = "editor" /\ running
    /\ mouse_pressed' = FALSE
    /\ current_erase_cell' = None
    /\ UNCHANGED <<runVars, gridVars, docVars, running, selected_cell, eraser_mode,
                   eraser_size, phase, histVars>>

\* a drag point that moves the lock to the cell under the pointer
EraseDragRelock(ex, ey) ==
    /\ phase = "editor" /\ running
    /\ mouse_pressed /\ eraser_mode /\ current_erase_cell # None
    /\ LET cell == GridCell(ex - BORDER_X, ey - BORDER_Y, Scale(cleaned_image))
           res == EraseAtPosition(aligned_image, sprite_cache,
                                  ex - BORDER_X, ey - BORDER_Y,
                                  Scale(cleaned_image), eraser_size, cell)
       IN  /\ current_erase_cell' = cell
           /\ aligned_image' = res.img
           /\ sprite_cache' = res.cache
    /\ UNCHANGED <<runVars, gridVars, sprite_offsets, undo_stack, running,
                   selected_cell, eraser_mode, eraser_size, mouse_pressed, phase,
                   pushed>>

\* MOUSEMOTION to event.pos = (ex, ey) while a stroke is locked to a cell
EraseDragAt(ex, ey) ==
    /\ phase = "editor" /\ running
    /\ mouse_pressed /\ eraser_mode /\ current_erase_cell # None
    /\ LET res == EraseAtPosition(aligned_image, sprite_cache,
                                  ex - BORDER_X, ey - BORDER_Y,
                                  Scale(cleaned_image), eraser_size,
                                  current_erase_cell)
       IN  /\ aligned_image' = res.img
           /\ sprite_cache' = res.cache
    /\ UNCHANGED <<runVars, gridVars, sprite_offsets, undo_stack, uiVars, phase, pushed>>

EraseDrag(can, cost) ==
    /\ can
    /\ edits' = edits + cost
    /\ \E pos \in Pointers : EraseDragAt(pos[1], pos[2])

\* MOUSEMOTION otherwise
IdleMotion ==
    /\ phase = "editor" /\ running
    /\ ~(mouse_pressed /\ eraser_mode /\ current_erase_cell # None)
    /\ UNCHANGED vars

\* a session of at most MaxEdits edits
Next ==
    \/ AlignStage
    \/ OpenTool
    \/ \E event \in EndEvents : Quit(event)
    \/ ToggleEraser
    \/ Undo
    \/ SizeUp(edits < MaxEdits, 1)
    \/ SizeDown(edits < MaxEdits, 1)
    \/ OffsetKey(edits < MaxEdits, 1)
    \/ IgnoredKey
    \/ ErasePress(edits < MaxEdits, 1)
    \/ SelectPress
    \/ Release
    \/ EraseDrag(edits < MaxEdits, 1)
    \/ IdleMotion

Spec == Init /\ [][Next]_vars

----------------------------------------------------------------------------
(* Sessions of many strokes.  The undo stack holds the history of a session,  *)
(* so the strokes of these sessions are a sweep: every press is on the first  *)
(* opaque pixel of the sheet, every drag point on the bottom pixel of the     *)
(* locked cell, and drag points are explored in the strokes made once the     *)
(* stack has been full.                                                       *)

\* a 12 x 5 sheet, every pixel opaque, in 1 row of 12 columns: cells of 1 x 5,
\* of which the brush of radius 3 pressed on the top pixel leaves the bottom
\* pixel
StrokeSheet ==
    [img |-> Sheet(12, 5, (0..11) \X (0..4), {}), rows |-> 1, cols |-> 12]

InitUndo == InitFrom(StrokeSheet)

\* the topmost opaque pixel of the first cell that is not empty, (0, 0) on an
\* empty canvas
SweepPoint ==
    LET full == {c \in Cells : ~IsEmpty(CellOf(aligned_image, c[1], c[2]))}
    IN  IF full = {} THEN <<0, 0>>
        ELSE LET k == SetMin({c[1] * cols + c[2] : c \in full})
                 row == k \div cols
                 col == k % cols
             IN  <<col * sprite_width,
                   row * sprite_height
                       + SetMin(OpaqueYs(CellOf(aligned_image, row, col)))>>

\* the bottom pixel of the locked cell
DragPoint ==
    <<current_erase_cell[2] * sprite_width,
      (current_erase_cell[1] + 1) * sprite_height - 1>>

StrokePress ==
    /\ Len(pushed) < MaxStrokes
    /\ LET pos == PointerAt(SweepPoint) IN ErasePressAt(pos[1], pos[2])
    /\ UNCHANGED edits

StrokeDrag ==
    /\ edits < MaxDrags
    /\ Len(pushed) > UNDO_LIMIT
    /\ current_erase_cell # None
    /\ LET pos == PointerAt(DragPoint) IN EraseDragAt(pos[1], pos[2])
    /\ edits' = edits + 1

NextUndo ==
    \/ AlignStage
    \/ OpenTool
    \/ ToggleEraser
    \/ Undo
    \/ StrokePress
    \/ StrokeDrag
    \/ Release

SpecUndo == InitUndo /\ [][NextUndo]_vars

----------------------------------------------------------------------------
(* Sessions of clicks and at most MaxNudges offset keys, with no eraser       *)
(* stroke and no undo.                                                        *)

NextNudge ==
    \/ AlignStage
    \/ OpenTool
    \/ SelectPress
    \/ Release
    \/ OffsetKey(edits < MaxNudges, 1)

SpecNudge == Init /\ [][NextNudge]_vars

----------------------------------------------------------------------------
(* Sessions of any number of size keys, with clicks and the eraser toggled.   *)

NextSize ==
    \/ AlignStage
    \/ OpenTool
    \/ SizeUp(TRUE, 0)
    \/ SizeDown(TRUE, 0)
    \/ ToggleEraser
    \/ SelectPress
    \/ Release

SpecSize == Init /\ [][NextSize]_vars

----------------------------------------------------------------------------
(* The whole run: run() from the choice of the sheet to the export, with at   *)
(* most MaxReturns returns from the preview and sessions in which cells are   *)
(* selected and at most MaxRunEdits offset keys pressed.                      *)

\* run(), step 2: clean_sprite, or the sheet as it is; the cleaned sheet is
\* one of the input sheets
LoadSheet ==
    /\ phase = "start"
    /\ \E sheet \in InputSheets : cleaned_image' = sheet.img
    /\ \E stage \in {"clean_sprite", "open"} : log' = Append(log, stage)
    /\ phase' = "sheet"
    /\ UNCHANGED <<final_img, rows, cols, sprite_width, sprite_height, docVars,
                   uiVars, histVars, params, alignment_done, frames, exported>>

\* get_grid_dimensions, answered with the grid of the sheet
GetGridDimensions ==
    /\ phase = "sheet"
    /\ \E sheet \in InputSheets :
          /\ sheet.img = cleaned_image
          /\ rows' = sheet.rows
          /\ cols' = sheet.cols
          /\ sprite_width' = cleaned_image.w \div sheet.cols
          /\ sprite_height' = cleaned_image.h \div sheet.rows
    /\ log' = Append(log, "get_grid_dimensions")
    /\ phase' = "grid"
    /\ UNCHANGED <<final_img, cleaned_image, docVars, uiVars, histVars, params,
                   alignment_done, frames, exported>>

\* slice_sprite_sheet, each frame its cell blitted on a transparent surface,
\* and preview_animations up to its event loop
Slice ==
    /\ phase = "closed"
    /\ frames' = [c \in Cells |->
            LET cell == CellOf(aligned_image, c[1], c[2])
            IN  Force([cell EXCEPT !.px =
                    [y \in 0..(cell.h-1) |-> [x \in 0..(cell.w-1) |->
                        IF Alpha(cell.px[y][x]) = 0 THEN ZERO
                        ELSE cell.px[y][x]]]])]
    /\ log' = log \o <<"slice_sprite_sheet", "preview_animations">>
    /\ phase' = "preview"
    /\ UNCHANGED <<gridVars, docVars, uiVars, histVars, params, alignment_done,
                   exported>>

\* the events that end the preview: K_a returns to the alignment tool, where
\* the loop of run() skips the alignment it has done; the others go on to
\* the export
PreviewEnd ==
    /\ phase = "preview"
    /\ \E event \in EndEvents \cup {"a"} :
          /\ event = "a" =>
                Cardinality({i \in DOMAIN log : log[i] = "a"}) < MaxReturns
          /\ log' = Append(log, event)
          /\ phase' = IF event = "a"
                      THEN (IF alignment_done THEN "aligned" ELSE "grid")
                      ELSE "export"
    /\ UNCHANGED <<gridVars, docVars, uiVars, histVars, params, alignment_done,
                   frames, exported>>

\* the files of export choice 2: one per cell of the grid
SeparateFiles(final_image) ==
    [name \in {<<"sprite", c[1], c[2]>> : c \in Cells} |->
        CellOf(final_image, name[2], name[3])]

\* the files of export choice 1: the sheet, and a copy with a line of
\* (255, 0, 0, 128) on the first pixel row and column of every cell but the
\* first
SheetFiles(final_image) ==
    LET lined == [final_image EXCEPT !.px =
            [y \in 0..(final_image.h-1) |-> [x \in 0..(final_image.w-1) |->
                IF \/ \E row \in 1..(rows-1) : y = row * sprite_height
                   \/ \E col \in 1..(cols-1) : x = col * sprite_width
                THEN <<255, 128>> ELSE final_image.px[y][x]]]]
    IN  [name \in {<<"sheet">>, <<"grid_preview">>} |->
            IF name = <<"sheet">> THEN final_image ELSE lined]

\* export_sprite_sheet
Export ==
    /\ phase = "export"
    /\ \E export_choice \in {"1", "2"} :
          exported' = IF export_choice = "2" THEN SeparateFiles(aligned_image)
                      ELSE SheetFiles(aligned_image)
    /\ log' = Append(log, "export_sprite_sheet")
    /\ phase' = "exported"
    /\ UNCHANGED <<gridVars, docVars, uiVars, histVars, params, alignment_done,
                   frames>>

NextRun ==
    \/ LoadSheet
    \/ GetGridDimensions
    \/ AlignStage
    \/ OpenTool
    \/ \E event \in EndEvents : Quit(event)
    \/ SelectPress
    \/ OffsetKey(phase = "editor" /\ edits < MaxRunEdits, 1)
    \/ Slice
    \/ PreviewEnd
    \/ Export

SpecRun == InitPipeline(NoImage, "start") /\ [][NextRun]_vars

----------------------------------------------------------------------------
(* Properties *)

\* the step is an eraser press, or a drag point of a stroke locked to a cell
EraseStep == ErasePress(TRUE, 1) \/ EraseDrag(TRUE, 1)

\* the step is a key that reaches the offset branch
OffsetStep == OffsetKey(TRUE, 1)

\* the pixel (x, y) lies in the region of the cell
InCell(cell, x, y) ==
    /\ cell # None
    /\ cell[2] * sprite_width <= x /\ x < (cell[2] + 1) * sprite_width
    /\ cell[1] * sprite_height <= y /\ y < (cell[1] + 1) * sprite_height

\* the canvas as a function of the cache, the offsets and the grid alone: the
\* cells placed on a transparent array of the sheet's size, then cleaned
RebuiltCanvas(cache, offsets) ==
    CleanCellArtifacts(
        RebuildFrom(0, Blank(cleaned_image.w, cleaned_image.h), cache, offsets).arr
    ).img

\* the canvas at the start of the first editing session
StartCanvas == CleanCellArtifacts(AutoAlign(cleaned_image).img).img

\* the last n elements of s, all of s when it is shorter than n
LastN(s, n) == SubSeq(s, Max2(1, Len(s) - n + 1), Len(s))

HasOpaque(img) ==
    \E y \in 0..(img.h-1), x \in 0..(img.w-1) : Alpha(img.px[y][x]) > 0

\* C1: every eraser press and every drag point changes only pixels inside the
\* cell locked by the press (the cell under the pointer); no pixel of any
\* other cell changes.
C1_EraseOnlyInLockedCell ==
    [][EraseStep =>
        \A y \in 0..(aligned_image.h-1), x \in 0..(aligned_image.w-1) :
            aligned_image'.px[y][x] # aligned_image.px[y][x]
                => InCell(current_erase_cell', x, y)]_vars

\* C2: a nudge or an alignment shortcut on the selected cell leaves the canvas
\* pixels of every other cell's region as they were before the key.
C2_NudgeKeepsOtherCells ==
    [][OffsetStep /\ phase' = "editor" =>
        \A c \in Cells \ {selected_cell} :
            CellOf(aligned_image', c[1], c[2]) = CellOf(aligned_image, c[1], c[2])
      ]_vars

\* C3: an eraser edit survives a later rebuild: after a stroke locked to a
\* cell, a rebuild that leaves every offset at its value keeps, in that cell,
\* the cleared pixels transparent and the other pixels unchanged.
C3_EraseSurvivesRebuild ==
    [][/\ OffsetStep /\ phase' = "editor"
       /\ pushed # <<>> /\ current_erase_cell # None
       /\ sprite_offsets' = sprite_offsets
       => CellOf(aligned_image', current_erase_cell[1], current_erase_cell[2])
            = CellOf(aligned_image, current_erase_cell[1], current_erase_cell[2])
      ]_vars

\* C4: a rebuild never raises an error, whatever offset the nudges have
\* reached.
C4_RebuildNeverRaises == phase # "crashed"

\* C5: a rebuild that fails part way leaves the canvas exactly the prior
\* canvas, and no event is processed after it.
C5_RebuildAllOrNothing ==
    [][/\ (OffsetStep /\ phase' = "crashed" => aligned_image' = aligned_image)
       /\ phase # "crashed"]_vars

\* C5 witness: a rebuild has failed, on a canvas that holds sprites, after it
\* had built an array that differs from the canvas.
C5_FailedRebuild ==
    /\ phase = "crashed"
    /\ HasOpaque(aligned_image)
    /\ LET built == Compose(aligned_image, sprite_cache, sprite_offsets)
       IN  ~built.ok /\ HasOpaque(built.arr) /\ built.arr # aligned_image

\* C6: after every offset change and every erase (press or drag point) of a
\* stroke locked to a cell the canvas equals the cleaned rebuild of the cache
\* and the offsets.
C6_CanvasIsCleanedRebuild ==
    [][\/ OffsetStep /\ phase' = "editor"
       \/ EraseStep /\ current_erase_cell' # None
       => aligned_image' = RebuiltCanvas(sprite_cache', sprite_offsets')]_vars

\* C7: the undo stack never holds more than 20 snapshots; a press pushes the
\* canvas as it was before the press and drops the oldest snapshot past 20, a
\* drag point pushes nothing; after 21 strokes the stack is the 20 most recent
\* snapshots in push order.
C7_UndoStackBounded ==
    /\ [](/\ Len(undo_stack) <= UNDO_LIMIT
          /\ undo_stack = LastN(pushed, Len(undo_stack))
          /\ (Len(pushed) = UNDO_LIMIT + 1 /\ Len(undo_stack) = UNDO_LIMIT
                => undo_stack = SubSeq(pushed, 2, UNDO_LIMIT + 1)))
    /\ [][/\ (StrokePress =>
                undo_stack' = LastN(Append(undo_stack, aligned_image), UNDO_LIMIT))
          /\ (StrokeDrag => undo_stack' = undo_stack)]_vars

\* C7 witness: 21 strokes have been made; the stack holds 20 snapshots, the
\* first snapshot pushed is gone and the snapshots differ from each other.
C7_TwentyOneStrokes ==
    /\ Len(pushed) = UNDO_LIMIT + 1
    /\ Len(undo_stack) = UNDO_LIMIT
    /\ undo_stack[1] = pushed[2]
    /\ \A i, j \in 1..Len(pushed) : i # j => pushed[i] # pushed[j]

\* C8: an undo with a snapshot on the stack makes the snapshot pushed by the
\* latest press the canvas, whatever the drag points of the stroke did, takes
\* it off the stack and captures every cache entry from the restored canvas.
C8_UndoRestoresLatest ==
    [][Undo /\ undo_stack # <<>> =>
        /\ aligned_image' = pushed[Len(pushed)]
        /\ undo_stack' = SubSeq(undo_stack, 1, Len(undo_stack) - 1)
        /\ sprite_cache' = CacheSprites(aligned_image')]_vars

\* C8 witness: 21 strokes were made, the last with a drag point, and undone
\* once: the canvas is the canvas before the 21st press, the two cells the
\* stroke was cutting whole again.
C8_UndoneStrokeWithDrag ==
    /\ edits = 1
    /\ Len(pushed) = UNDO_LIMIT
    /\ Len(undo_stack) = UNDO_LIMIT - 1
    /\ NumOpaque(aligned_image) = 2 * sprite_height
    /\ sprite_cache = CacheSprites(aligned_image)

\* C9: an undo with an empty stack, and a key of the offset branch with no
\* cell selected or with eraser mode on, leave the canvas, the cache, the
\* offsets and the undo stack unchanged, and the session keeps running.
C9_StateErrorsAreNoOps ==
    [][(Undo /\ undo_stack = <<>>) \/ IgnoredKey =>
        /\ UNCHANGED <<runVars, aligned_image, sprite_cache, sprite_offsets, undo_stack>>
        /\ phase' = "editor" /\ running']_vars

\* C9 witness: a running session in eraser mode, so with no cell selected,
\* after a key has moved a sprite: the canvas holds sprites, the undo stack is
\* empty, and both an undo and an arrow key are state errors.
C9_NothingToUndoOrMove ==
    /\ phase = "editor" /\ running
    /\ undo_stack = <<>> /\ selected_cell = None /\ eraser_mode
    /\ sprite_offsets # AutoAlign(cleaned_image).offsets
    /\ HasOpaque(aligned_image)

\* C10: the canvas a rebuild leaves is a function of the cache, the offsets
\* and the grid alone, whatever the canvas was before the rebuild.
C10_RebuildIgnoresCanvas ==
    [][OffsetStep /\ phase' = "editor" =>
        aligned_image' = RebuiltCanvas(sprite_cache', sprite_offsets')]_vars

\* C10 witness: a stroke on the start canvas changed the cache, a key then
\* changed an offset, and the canvas is the rebuild of that cache and those
\* offsets although the canvas before the key held the erased cell in place.
C10_RebuiltAfterStroke ==
    /\ phase = "editor"
    /\ Len(pushed) = 1 /\ pushed[1] = StartCanvas
    /\ sprite_cache # CacheSprites(pushed[1])
    /\ sprite_offsets # AutoAlign(cleaned_image).offsets
    /\ aligned_image = RebuiltCanvas(sprite_cache, sprite_offsets)
    /\ HasOpaque(aligned_image)

----------------------------------------------------------------------------
(* The cell artifact cleaner on its own: clean_cell_artifacts applied to a    *)
(* canvas, and applied again to its own output.                               *)

\* the canvases and grids the cleaner is explored on: every canvas of 5 x 1
\* and of 1 x 5 pixels, each pixel opaque, transparent with a colour left, or
\* (0, 0, 0, 0), in one cell or in two cells with a leftover strip
CanvasSheets ==
    LET wide == (0..4) \X {0}
        tall == {0} \X (0..4)
    IN  {[img |-> Sheet(5, 1, opaque, tinted), rows |-> 1, cols |-> c] :
            opaque \in SUBSET wide, tinted \in SUBSET wide, c \in 1..2}
        \cup
        {[img |-> Sheet(1, 5, opaque, tinted), rows |-> r, cols |-> 1] :
            opaque \in SUBSET tall, tinted \in SUBSET tall, r \in 1..2}

\* the object with the canvas as its aligned image
InitCanvas ==
    \E sheet \in CanvasSheets :
        /\ InitRun
        /\ final_img = NoImage
        /\ cleaned_image = sheet.img
        /\ rows = sheet.rows
        /\ cols = sheet.cols
        /\ sprite_width = sheet.img.w \div sheet.cols
        /\ sprite_height = sheet.img.h \div sheet.rows
        /\ aligned_image = sheet.img
        /\ sprite_offsets = EmptyDict
        /\ sprite_cache = EmptyDict
        /\ undo_stack = <<>>
        /\ running = FALSE
        /\ selected_cell = None
        /\ eraser_mode = FALSE
        /\ eraser_size = ERASER_INIT
        /\ mouse_pressed = FALSE
        /\ current_erase_cell = None
        /\ phase = "canvas"
        /\ pushed = <<>>
        /\ edits = 0

\* clean_cell_artifacts, on the canvas and then on its own output
CleanArtifacts ==
    /\ phase \in {"canvas", "trimmed"}
    /\ aligned_image' = CleanCellArtifacts(aligned_image).img
    /\ phase' = IF phase = "canvas" THEN "trimmed" ELSE "retrimmed"
    /\ UNCHANGED <<runVars, gridVars, sprite_offsets, sprite_cache, undo_stack, uiVars,
                   histVars>>

SpecClean == InitCanvas /\ [][CleanArtifacts]_vars

\* the pixels of an image
PixelsOf(img) == (0..(img.w-1)) \X (0..(img.h-1))

\* the pixel p of the canvas lies in a cell of the grid, outside the bounding
\* box of the cell's opaque pixels expanded by the margin and clamped
OutsideExpandedBox(img, p) ==
    /\ p[1] < cols * sprite_width /\ p[2] < rows * sprite_height
    /\ LET cell == CellOf(img, p[2] \div sprite_height, p[1] \div sprite_width)
           x == p[1] % sprite_width
           y == p[2] % sprite_height
       IN  /\ ~IsEmpty(cell)
           /\ LET b == BBox(cell)
              IN  \/ x < Max2(0, b.min_x - CLEAN_MARGIN)
                  \/ x > Min2(sprite_width - 1, b.max_x + CLEAN_MARGIN)
                  \/ y < Max2(0, b.min_y - CLEAN_MARGIN)
                  \/ y > Min2(sprite_height - 1, b.max_y + CLEAN_MARGIN)

\* C11: the cleaner run a second time, on its own output, returns a removed
\* count of 0 and leaves the canvas unchanged.
C11_CleanerIdempotent ==
    [][CleanArtifacts /\ phase = "trimmed" =>
        /\ aligned_image' = aligned_image
        /\ CleanCellArtifacts(aligned_image).removed = 0]_vars

\* C11 witness: the cleaner has run twice on a canvas that holds sprites and
\* that its first run changed.
C11_CleanedTwice ==
    /\ phase = "retrimmed"
    /\ HasOpaque(aligned_image)
    /\ aligned_image # cleaned_image

\* what a pixel shows: the colour left in a transparent pixel is not shown
Shown(px) == IF Alpha(px) = 0 THEN ZERO ELSE px

\* C12: the cleaner changes what a pixel shows only by making transparent an
\* opaque pixel that lies outside its cell's bounding box expanded by the
\* margin and clamped to the cell, and the count it returns is the number of
\* pixels opaque before it and transparent after it.
C12_CleanerTrimsAndCounts ==
    [][CleanArtifacts =>
        /\ \A p \in PixelsOf(aligned_image) :
              Shown(aligned_image'.px[p[2]][p[1]]) # Shown(aligned_image.px[p[2]][p[1]]) =>
                  /\ Alpha(aligned_image.px[p[2]][p[1]]) > 0
                  /\ Alpha(aligned_image'.px[p[2]][p[1]]) = 0
                  /\ OutsideExpandedBox(aligned_image, p)
        /\ CleanCellArtifacts(aligned_image).removed =
              Cardinality({p \in PixelsOf(aligned_image) :
                  /\ Alpha(aligned_image.px[p[2]][p[1]]) > 0
                  /\ Alpha(aligned_image'.px[p[2]][p[1]]) = 0})]_vars

----------------------------------------------------------------------------
(* Auto-alignment on its own: auto_align_sprites applied to a sheet.          *)

\* a 30-pixel-tall cell with one opaque pixel at y
PixelCell(y) == Sheet(1, 30, {<<0, y>>}, {})

\* a 160 x 90 sheet with a 4 x 4 square on the pixels (2+i, 26+j) of cell
\* (1, 2) of a grid of 32 x 30 cells
SquareSheet ==
    Sheet(160, 90, {<<2 * 32 + 2 + i, 1 * 30 + 26 + j>> : i \in 0..3, j \in 0..3}, {})

\* the sheets and grids alignment is explored on: every column of 1 x 6 and
\* every row of 6 x 1 pixels with each pixel opaque, transparent with a colour
\* left, or (0, 0, 0, 0); every 2 x 4 sheet of opaque and (0, 0, 0, 0) pixels;
\* a 30-pixel-tall cell with one opaque pixel at y = 0 and at y = 28; the
\* 160 x 90 sheet in 3 rows of 5 columns with a 4 x 4 square in cell (1, 2);
\* and every 2 x 2 sheet with 3 columns or with 3 rows asked for, which
\* get_grid_dimensions accepts (1 <= 3 <= 20) and divides into cells of width
\* 2 // 3 = 0 or of height 0
AlignSheets ==
    LET tall == {0} \X (0..5)
        wide == (0..5) \X {0}
        both == (0..1) \X (0..3)
        tiny == (0..1) \X (0..1)
    IN  {[img |-> Sheet(2, 2, opaque, {}), rows |-> g[1], cols |-> g[2]] :
            opaque \in SUBSET tiny, g \in {<<1, 3>>, <<3, 1>>}}
        \cup
        {[img |-> Sheet(1, 6, opaque, tinted), rows |-> r, cols |-> 1] :
            opaque \in SUBSET tall, tinted \in SUBSET tall, r \in 1..2}
        \cup
        {[img |-> Sheet(6, 1, opaque, tinted), rows |-> 1, cols |-> c] :
            opaque \in SUBSET wide, tinted \in SUBSET wide, c \in {1, 2, 4}}
        \cup
        {[img |-> Sheet(2, 4, opaque, {}), rows |-> r, cols |-> c] :
            opaque \in SUBSET both, r \in 1..2, c \in 1..2}
        \cup
        {[img |-> PixelCell(0), rows |-> 1, cols |-> 1],
         [img |-> PixelCell(28), rows |-> 1, cols |-> 1],
         [img |-> SquareSheet, rows |-> 3, cols |-> 5]}

\* auto_align_sprites
AutoAlignSprites ==
    /\ phase = "grid"
    /\ LET aligned == AutoAlign(cleaned_image)
       IN  /\ aligned_image' = aligned.img
           /\ sprite_offsets' = aligned.offsets
    /\ phase' = "autoaligned"
    /\ UNCHANGED <<runVars, gridVars, sprite_cache, undo_stack, uiVars, histVars>>

SpecAlign == (\E sheet \in AlignSheets : InitFrom(sheet)) /\ [][AutoAlignSprites]_vars

\* the cells of the sheet that hold a pixel with alpha > 0
NonEmptyCells == {c \in Cells : ~IsEmpty(CellOf(cleaned_image, c[1], c[2]))}

\* the bounding box of the pixels with alpha > 0 of every non-empty cell
SheetBoxes ==
    Force([c \in NonEmptyCells |-> BBox(CellOf(cleaned_image, c[1], c[2]))])

\* C13: every non-empty cell gets offsetY = (cellHeight - spriteHeight)//2
\* when the vertical centre of its bounding box is below cellHeight/3 and
\* cellHeight - spriteHeight otherwise, and offsetX = (cellWidth -
\* spriteWidth)//2; the 1-pixel box at y = 0 of a 30-pixel cell gets 14, at
\* y = 28 it gets 29, and the 4 x 4 square at (2, 26) of cell (1, 2) of the
\* 160 x 90 sheet gets offsetY 26 and offsetX 14.
C13_OffsetsByCentre ==
    phase = "autoaligned" =>
        /\ \A c \in NonEmptyCells :
              LET b == BBox(CellOf(cleaned_image, c[1], c[2]))
                  spriteHeight == b.max_y - b.min_y + 1
                  spriteWidth == b.max_x - b.min_x + 1
                  \* centre = min_y + spriteHeight/2 < cellHeight/3, times 6
                  aloft == 6 * b.min_y + 3 * spriteHeight < 2 * sprite_height
              IN  /\ c \in DOMAIN sprite_offsets
                  /\ sprite_offsets[c][2] =
                        IF aloft THEN (sprite_height - spriteHeight) \div 2
                        ELSE sprite_height - spriteHeight
                  /\ sprite_offsets[c][1] = (sprite_width - spriteWidth) \div 2
        /\ cleaned_image = PixelCell(0) => sprite_offsets[<<0, 0>>][2] = 14
        /\ cleaned_image = PixelCell(28) => sprite_offsets[<<0, 0>>][2] = 29
        /\ cleaned_image = SquareSheet => sprite_offsets[<<1, 2>>] = <<14, 26>>

\* C13 witness: a sheet has been aligned in which one cell holds an aloft
\* sprite, centred above the bottom position, and another a grounded sprite
\* moved down to the bottom of its cell
C13_AloftAndGrounded ==
    /\ phase = "autoaligned"
    /\ \E c \in NonEmptyCells, d \in NonEmptyCells :
          LET b == SheetBoxes[c]
              g == SheetBoxes[d]
          IN  /\ 6 * b.min_y + 3 * (b.max_y - b.min_y + 1) < 2 * sprite_height
              /\ sprite_offsets[c][2] < sprite_height - (b.max_y - b.min_y + 1)
              /\ 6 * g.min_y + 3 * (g.max_y - g.min_y + 1) >= 2 * sprite_height
              /\ sprite_offsets[d][2] > g.min_y

\* the pixel of the sheet that the aligned canvas shows at (x, y): the pixel
\* of the bounding box of the cell (x, y) lies in, when (x, y) lies in the
\* box moved to the cell's offset, and (0, 0, 0, 0) otherwise
PlacedPixel(boxes, x, y) ==
    IF x >= cols * sprite_width \/ y >= rows * sprite_height THEN ZERO
    ELSE LET c == <<y \div sprite_height, x \div sprite_width>>
         IN  IF c \notin DOMAIN boxes THEN ZERO
             ELSE LET b == boxes[c]
                      bx == (x % sprite_width) - sprite_offsets[c][1]
                      by == (y % sprite_height) - sprite_offsets[c][2]
                  IN  IF /\ 0 <= bx /\ bx <= b.max_x - b.min_x
                         /\ 0 <= by /\ by <= b.max_y - b.min_y
                      THEN cleaned_image.px[c[1] * sprite_height + b.min_y + by]
                                           [c[2] * sprite_width + b.min_x + bx]
                      ELSE ZERO

\* C14: after alignment the offsets have an entry for exactly the cells that
\* hold a pixel with alpha > 0, and the region of every other cell of the
\* aligned canvas is fully transparent.
C14_EmptyCellsSkipped ==
    phase = "autoaligned" =>
        /\ DOMAIN sprite_offsets = NonEmptyCells
        /\ \A c \in Cells \ NonEmptyCells :
              CellOf(aligned_image, c[1], c[2]) = Blank(sprite_width, sprite_height)

\* C14 witness: a sheet has been aligned in which one cell holds a sprite and
\* another only transparent pixels, one of them with a colour left
C14_EmptyCellBesideSprite ==
    /\ phase = "autoaligned"
    /\ NonEmptyCells # {}
    /\ \E c \in Cells \ NonEmptyCells :
          CellOf(cleaned_image, c[1], c[2]) # Blank(sprite_width, sprite_height)

\* C15: the aligned canvas holds, for each non-empty cell, the content of the
\* cell's bounding box copied pixel for pixel to cell origin + offset, and is
\* (0, 0, 0, 0) everywhere else.
C15_AlignedBuiltFresh ==
    phase = "autoaligned" =>
        /\ aligned_image.w = cleaned_image.w
        /\ aligned_image.h = cleaned_image.h
        /\ LET boxes == SheetBoxes
           IN  \A p \in PixelsOf(aligned_image) :
                  aligned_image.px[p[2]][p[1]] = PlacedPixel(boxes, p[1], p[2])

\* C15 witness: a sheet has been aligned whose sprite was moved, with a
\* transparent pixel inside the bounding box copied along and a coloured
\* transparent pixel outside the box dropped
C15_MovedAndDropped ==
    /\ phase = "autoaligned"
    /\ \E c \in NonEmptyCells :
          /\ sprite_offsets[c] # <<SheetBoxes[c].min_x, SheetBoxes[c].min_y>>
          /\ NumOpaque(SpriteOf(CellOf(cleaned_image, c[1], c[2])))
                < SpriteOf(CellOf(cleaned_image, c[1], c[2])).w
                  * SpriteOf(CellOf(cleaned_image, c[1], c[2])).h
    /\ \E p \in PixelsOf(cleaned_image) :
          /\ cleaned_image.px[p[2]][p[1]] # ZERO
          /\ Alpha(cleaned_image.px[p[2]][p[1]]) = 0
          /\ aligned_image.px[p[2]][p[1]] = ZERO
          /\ PlacedPixel(SheetBoxes, p[1], p[2]) = ZERO

\* C22: no canvas and no offsets are produced for a grid with a cell of width
\* 0 or of height 0: the aligner finishes only on grids whose cells have a
\* positive width and a positive height.
C22_NoCanvasOnZeroCell ==
    phase = "autoaligned" => sprite_width > 0 /\ sprite_height > 0

----------------------------------------------------------------------------
(* The despeckler: remove_orphan_pixels of sprite_pipeline.py and of          *)
(* pixel_fixer.py.                                                            *)

\* the number of elements of the list s equal to v
CountOf(s, v) == Cardinality({i \in 1..Len(s) : s[i] = v})

\* a tie between the most frequent colours broken by the last one listed
MostCommonLast(s) ==
    s[CHOOSE i \in 1..Len(s) :
        /\ \A j \in 1..Len(s) : CountOf(s, s[j]) <= CountOf(s, s[i])
        /\ \A j \in (i+1)..Len(s) : CountOf(s, s[j]) < CountOf(s, s[i])]

\* Counter(s).most_common(1)[0][0] of a non-empty list: the counter keeps its
\* keys in the order they first occur, and the first key with the greatest
\* count is returned
MostCommon(s) ==
    s[CHOOSE i \in 1..Len(s) :
        /\ \A j \in 1..Len(s) : CountOf(s, s[j]) <= CountOf(s, s[i])
        /\ \A j \in 1..(i-1) : CountOf(s, s[j]) < CountOf(s, s[i])]

\* neighbors: N, S, W, E of data[y, x]
NeighborsOf(data, x, y) ==
    <<data.px[y-1][x], data.px[y+1][x], data.px[y][x-1], data.px[y][x+1]>>

IsValidNeighbor(n) == Alpha(n) > 0

\* the replacement written for a pixel that matches none of its neighbours
Replacement(neighbors) ==
    LET valid_neighbors == SelectSeq(neighbors, IsValidNeighbor)
    IN  IF valid_neighbors # <<>> THEN MostCommon(valid_neighbors) ELSE ZERO

\* a loop body that does not skip the transparent pixels
DespeckleAtAnyAlpha(data, clean_data, x, y) ==
    LET current_pixel == data.px[y][x]
        neighbors == NeighborsOf(data, x, y)
        matches == CountOf(neighbors, current_pixel)
    IN  IF matches = 0
        THEN [clean_data EXCEPT !.px[y][x] = Replacement(neighbors)]
        ELSE clean_data

\* the body of the loop of SpritePipeline.remove_orphan_pixels at (x, y)
DespeckleAt(data, clean_data, x, y) ==
    LET current_pixel == data.px[y][x]
        neighbors == NeighborsOf(data, x, y)
        matches == CountOf(neighbors, current_pixel)
    IN  IF Alpha(current_pixel) = 0 THEN clean_data
        ELSE IF matches = 0
             THEN [clean_data EXCEPT !.px[y][x] = Replacement(neighbors)]
             ELSE clean_data

\* matches of pixel_fixer.remove_orphan_pixels, counted neighbour by neighbour
RECURSIVE MatchesFrom(_, _, _)
MatchesFrom(neighbors, current_pixel, k) ==
    IF k > Len(neighbors) THEN 0
    ELSE (IF neighbors[k] = current_pixel THEN 1 ELSE 0)
            + MatchesFrom(neighbors, current_pixel, k + 1)

\* a loop body whose count of matches leaves out the neighbour to the north
FixerDespeckleAtSkipNorth(data, clean_data, x, y) ==
    LET current_pixel == data.px[y][x]
        neighbors == NeighborsOf(data, x, y)
        matches == MatchesFrom(neighbors, current_pixel, 2)
    IN  IF Alpha(current_pixel) = 0 THEN clean_data
        ELSE IF matches = 0
             THEN [clean_data EXCEPT !.px[y][x] = Replacement(neighbors)]
             ELSE clean_data

\* the body of the loop of pixel_fixer.remove_orphan_pixels at (x, y)
FixerDespeckleAt(data, clean_data, x, y) ==
    LET current_pixel == data.px[y][x]
        neighbors == NeighborsOf(data, x, y)
        matches == MatchesFrom(neighbors, current_pixel, 1)
    IN  IF Alpha(current_pixel) = 0 THEN clean_data
        ELSE IF matches = 0
             THEN [clean_data EXCEPT !.px[y][x] = Replacement(neighbors)]
             ELSE clean_data

\* for y in range(1, height - 1): for x in range(1, width - 1), as a list
InteriorPixels(img) ==
    IF img.w < 3 \/ img.h < 3 THEN <<>>
    ELSE [k \in 1..((img.w - 2) * (img.h - 2)) |->
            <<1 + ((k - 1) % (img.w - 2)), 1 + ((k - 1) \div (img.w - 2))>>]

\* the loop from its k-th pixel on, reading data and writing clean_data
RECURSIVE DespeckleLoop(_, _, _, _)
DespeckleLoop(data, clean_data, order, k) ==
    IF k > Len(order) THEN clean_data
    ELSE DespeckleLoop(data,
            DespeckleAt(data, clean_data, order[k][1], order[k][2]),
            order, k + 1)

RECURSIVE FixerDespeckleLoop(_, _, _, _)
FixerDespeckleLoop(data, clean_data, order, k) ==
    IF k > Len(order) THEN clean_data
    ELSE FixerDespeckleLoop(data,
            FixerDespeckleAt(data, clean_data, order[k][1], order[k][2]),
            order, k + 1)

\* a loop that reads the array it writes
RECURSIVE InPlaceLoop(_, _, _)
InPlaceLoop(clean_data, order, k) ==
    IF k > Len(order) THEN clean_data
    ELSE InPlaceLoop(
            DespeckleAt(clean_data, clean_data, order[k][1], order[k][2]),
            order, k + 1)

RemoveOrphanPixelsInPlace(img) == Force(InPlaceLoop(img, InteriorPixels(img), 1))

\* SpritePipeline.remove_orphan_pixels: data = np.array(img), clean_data =
\* data.copy(), the loop, Image.fromarray(clean_data)
RemoveOrphanPixels(img) ==
    Force(DespeckleLoop(img, img, InteriorPixels(img), 1))

\* pixel_fixer.remove_orphan_pixels
FixerRemoveOrphanPixels(img) ==
    Force(FixerDespeckleLoop(img, img, InteriorPixels(img), 1))

\* an image given by its pixels, row by row
ImageOf(w, h, pixels) ==
    Force([w |-> w, h |-> h,
           px |-> [y \in 0..(h-1) |-> [x \in 0..(w-1) |-> pixels[y + 1][x + 1]]]])

\* the images the despeckler is explored on: 3 x 3 images with one interior
\* pixel, that pixel and its four neighbours drawn from five pixel values;
\* 4 x 3 images with two adjacent interior pixels, these and their six
\* neighbours drawn from three; and images without an interior pixel
SpeckledImages ==
    LET RED == <<1, 255>>
        GREEN == <<2, 255>>
        BLUE == <<3, 255>>
        TINT == <<1, 0>>     \* transparent, with a colour left
        five == {ZERO, TINT, RED, GREEN, BLUE}
        three == {ZERO, RED, GREEN}
    IN  {ImageOf(3, 3, <<<<RED, n, GREEN>>, <<w, c, e>>, <<ZERO, s, TINT>>>>) :
            c \in five, n \in five, s \in five, w \in five, e \in five}
        \cup
        {ImageOf(4, 3, <<<<RED, q[1], q[2], ZERO>>,
                         <<q[3], q[4], q[5], q[6]>>,
                         <<ZERO, q[7], q[8], GREEN>>>>) :
            q \in [1..8 -> three]}
        \cup
        {ImageOf(3, 2, <<<<RED, c, GREEN>>, <<c, RED, c>>>>) : c \in five}
        \cup
        {ImageOf(2, 3, <<<<RED, c>>, <<c, RED>>, <<GREEN, c>>>>) : c \in five}

\* final_img = self.remove_orphan_pixels(final_img), and the same once more
Despeckle ==
    /\ phase \in {"speckled", "despeckled"}
    /\ final_img' = RemoveOrphanPixels(final_img)
    /\ phase' = IF phase = "speckled" THEN "despeckled" ELSE "despeckled again"
    /\ pushed' = Append(pushed, final_img)
    /\ UNCHANGED <<runVars, cleaned_image, rows, cols, sprite_width, sprite_height,
                   docVars, uiVars, edits>>

\* final_img = remove_orphan_pixels(final_img) of pixel_fixer.py
FixerDespeckle ==
    /\ phase \in {"speckled", "despeckled"}
    /\ final_img' = FixerRemoveOrphanPixels(final_img)
    /\ phase' = IF phase = "speckled" THEN "despeckled" ELSE "despeckled again"
    /\ pushed' = Append(pushed, final_img)
    /\ UNCHANGED <<runVars, cleaned_image, rows, cols, sprite_width, sprite_height,
                   docVars, uiVars, edits>>

SpecDespeckle ==
    (\E img \in SpeckledImages : InitPipeline(img, "speckled")) /\ [][Despeckle \/ FixerDespeckle]_vars

\* (x, y) is a pixel of the loop: not on the border of the image
IsInterior(img, x, y) ==
    1 <= x /\ x <= img.w - 2 /\ 1 <= y /\ y <= img.h - 2

\* an orphan: an interior pixel with alpha > 0 that equals none of its N, S,
\* W, E neighbours
IsOrphan(img, x, y) ==
    /\ IsInterior(img, x, y)
    /\ Alpha(img.px[y][x]) > 0
    /\ img.px[y-1][x] # img.px[y][x] /\ img.px[y+1][x] # img.px[y][x]
    /\ img.px[y][x-1] # img.px[y][x] /\ img.px[y][x+1] # img.px[y][x]

\* what the despeckler is to write for an orphan: the most frequent colour of
\* its opaque neighbours, the first of them in the order N, S, W, E on a tie,
\* and (0, 0, 0, 0) when it has none
OrphanColour(img, x, y) ==
    LET nb == <<img.px[y-1][x], img.px[y+1][x], img.px[y][x-1], img.px[y][x+1]>>
        opaque == {i \in 1..4 : Alpha(nb[i]) > 0}
        freq(i) == Cardinality({j \in opaque : nb[j] = nb[i]})
        best == {i \in opaque : \A j \in opaque : freq(j) <= freq(i)}
    IN  IF opaque = {} THEN ZERO ELSE nb[SetMin(best)]

\* every order in which the loop can visit the interior pixels
Orders(img) ==
    LET s == InteriorPixels(img)
        n == Len(s)
    IN  {[k \in 1..n |-> s[f[k]]] :
            f \in {g \in [1..n -> 1..n] :
                      \A a \in 1..n, b \in 1..n : a # b => g[a] # g[b]}}

\* C16: a pass rewrites exactly the orphans: an orphan becomes the most
\* frequent colour of its opaque neighbours (ties by N, S, W, E order) or
\* (0, 0, 0, 0) when it has none, and every border pixel, transparent pixel
\* and non-orphan pixel is left as it was.
C16_RewritesExactlyOrphans ==
    [][Despeckle \/ FixerDespeckle =>
        /\ final_img'.w = final_img.w /\ final_img'.h = final_img.h
        /\ \A p \in PixelsOf(final_img) :
              final_img'.px[p[2]][p[1]] =
                  IF IsOrphan(final_img, p[1], p[2])
                  THEN OrphanColour(final_img, p[1], p[2])
                  ELSE final_img.px[p[2]][p[1]]]_vars

\* C16 witness: a pass has rewritten an orphan whose N and S neighbours are
\* opaque, of two colours, each as frequent as the other, and left a
\* coloured border in place
C16_TieBrokenByNorth ==
    /\ phase = "despeckled"
    /\ LET input == pushed[1]
       IN  /\ input.w = 3 /\ input.h = 3
           /\ IsOrphan(input, 1, 1)
           /\ Alpha(input.px[0][1]) > 0 /\ Alpha(input.px[2][1]) > 0
           /\ input.px[0][1] # input.px[2][1]
           /\ input.px[1][0] = input.px[2][1] /\ input.px[1][2] = input.px[0][1]
           /\ final_img.px[1][1] = input.px[0][1]

\* C17: a pass reads only its input: visiting the interior pixels in any
\* order gives the output of the pass, and the pixels the pass changes are
\* the orphans of the input, whatever was written for their neighbours.
C17_SnapshotSinglePass ==
    [][Despeckle \/ FixerDespeckle =>
        /\ \A order \in Orders(final_img) :
              /\ DespeckleLoop(final_img, final_img, order, 1) = final_img'
              /\ FixerDespeckleLoop(final_img, final_img, order, 1) = final_img'
        /\ \A p \in PixelsOf(final_img) :
              (final_img'.px[p[2]][p[1]] # final_img.px[p[2]][p[1]])
                  <=> IsOrphan(final_img, p[1], p[2])]_vars

\* C17 witness: a pass has rewritten two adjacent orphans, each to the colour
\* the other had in the input
C17_AdjacentOrphansSwapped ==
    /\ phase = "despeckled"
    /\ LET input == pushed[1]
       IN  /\ input.w = 4 /\ input.h = 3
           /\ IsOrphan(input, 1, 1) /\ IsOrphan(input, 2, 1)
           /\ final_img.px[1][1] = input.px[1][2]
           /\ final_img.px[1][2] = input.px[1][1]

\* the image has no orphan
OrphanFree(img) == \A p \in PixelsOf(img) : ~IsOrphan(img, p[1], p[2])

\* C18: on an image without an orphan a pass returns the image unchanged,
\* and so does a second pass.
C18_IdempotentWithoutOrphans ==
    [][(Despeckle \/ FixerDespeckle) /\ OrphanFree(final_img) =>
        /\ final_img' = final_img
        /\ OrphanFree(final_img')]_vars

\* C18 witness: two passes have run on an image without an orphan that has
\* opaque and transparent interior pixels
C18_TwoPassesNoOrphan ==
    /\ phase = "despeckled again"
    /\ OrphanFree(pushed[1])
    /\ pushed[2] = pushed[1] /\ final_img = pushed[1]
    /\ \E p \in PixelsOf(final_img), q \in PixelsOf(final_img) :
          /\ IsInterior(final_img, p[1], p[2]) /\ IsInterior(final_img, q[1], q[2])
          /\ Alpha(final_img.px[p[2]][p[1]]) > 0
          /\ Alpha(final_img.px[q[2]][q[1]]) = 0
          /\ final_img.px[q[2]-1][q[1]] # ZERO

----------------------------------------------------------------------------
(* The image cleaner: clean_sprite of sprite_pipeline.py and                  *)
(* pixel_perfect_cleanup of pixel_fixer.py.                                   *)

\* a cutout that makes the pixels it keeps solid
ThresholdAlphaSolid(img) ==
    Force([img EXCEPT !.px =
        [y \in 0..(img.h-1) |-> [x \in 0..(img.w-1) |->
            IF Alpha(img.px[y][x]) < 128 THEN ZERO
            ELSE <<img.px[y][x][1], 255>>]]])

\* alpha thresholding: for item in datas, (0, 0, 0, 0) if item[3] < 128 else item
ThresholdAlpha(img) ==
    Force([img EXCEPT !.px =
        [y \in 0..(img.h-1) |-> [x \in 0..(img.w-1) |->
            IF Alpha(img.px[y][x]) < 128 THEN ZERO ELSE img.px[y][x]]]])

\* a mask that keeps the alpha values above the cut as they are
ReapplyAlphaSoft(img) ==
    Force([img EXCEPT !.px =
        [y \in 0..(img.h-1) |-> [x \in 0..(img.w-1) |->
            <<img.px[y][x][1],
              IF Alpha(img.px[y][x]) > 100 THEN Alpha(img.px[y][x]) ELSE 0>>]]])

\* re-apply alpha: the colours of final_img with the mask
\* point(lambda x: 255 if x > 100 else 0) of the alpha of img_small
ReapplyAlpha(img) ==
    Force([img EXCEPT !.px =
        [y \in 0..(img.h-1) |-> [x \in 0..(img.w-1) |->
            <<img.px[y][x][1],
              IF Alpha(img.px[y][x]) > 100 THEN 255 ELSE 0>>]]])

\* the images a file is loaded as: 2 x 1 pixels of alpha 0, 127, 128, 254
\* and 255
LoadedImages ==
    LET values == {ZERO, <<1, 0>>, <<1, 127>>, <<1, 128>>, <<2, 254>>, <<3, 255>>}
    IN  {ImageOf(2, 1, <<<<a, b>>>>) : a \in values, b \in values}

\* what resize, enhance and quantize can return: 3 x 3 pixels, the middle
\* one and its four neighbours of a palette colour and any alpha around the
\* cut of the mask
ResampledImages ==
    LET values == {<<1, 100>>, <<1, 101>>, <<2, 255>>}
    IN  {ImageOf(3, 3, <<<<<<1, 255>>, n, <<2, 0>>>>, <<w, c, e>>,
                         <<<<2, 254>>, s, <<1, 1>>>>>>) :
            c \in values, n \in values, s \in values, w \in values, e \in values}

\* step 1 of clean_sprite and step 2 of pixel_perfect_cleanup
ThresholdStep ==
    /\ phase = "loaded"
    /\ final_img' = ThresholdAlpha(final_img)
    /\ pushed' = Append(pushed, final_img)
    /\ phase' = "thresholded"
    /\ UNCHANGED <<runVars, cleaned_image, rows, cols, sprite_width, sprite_height,
                   docVars, uiVars, edits>>

\* downscale, enhance and quantize: the library's result
ResampleStep ==
    /\ phase = "thresholded"
    /\ final_img' \in ResampledImages
    /\ phase' = "quantized"
    /\ UNCHANGED <<runVars, cleaned_image, rows, cols, sprite_width, sprite_height,
                   docVars, uiVars, histVars>>

\* final_img.putalpha(binary_alpha)
ReapplyAlphaStep ==
    /\ phase = "quantized"
    /\ final_img' = ReapplyAlpha(final_img)
    /\ phase' = "masked"
    /\ UNCHANGED <<runVars, cleaned_image, rows, cols, sprite_width, sprite_height,
                   docVars, uiVars, histVars>>

\* clean_sprite: the despeckler, and self.cleaned_image = final_img
FinishClean ==
    /\ phase = "masked"
    /\ final_img' = RemoveOrphanPixels(final_img)
    /\ cleaned_image' = RemoveOrphanPixels(final_img)
    /\ pushed' = Append(pushed, final_img)
    /\ phase' = "cleaned"
    /\ UNCHANGED <<runVars, rows, cols, sprite_width, sprite_height, docVars, uiVars,
                   edits>>

\* pixel_perfect_cleanup: the despeckler, and final_img.save(output_path)
FinishFixer ==
    /\ phase = "masked"
    /\ final_img' = FixerRemoveOrphanPixels(final_img)
    /\ pushed' = Append(pushed, final_img)
    /\ phase' = "saved"
    /\ UNCHANGED <<runVars, cleaned_image, rows, cols, sprite_width, sprite_height,
                   docVars, uiVars, edits>>

NextCleanup ==
    \/ ThresholdStep
    \/ ResampleStep
    \/ ReapplyAlphaStep
    \/ FinishClean
    \/ FinishFixer

\* from Image.open(...).convert("RGBA") on
SpecCleanup ==
    (\E img \in LoadedImages : InitPipeline(img, "loaded")) /\ [][NextCleanup]_vars

\* every pixel of the image has alpha 0 or alpha 255
BinaryAlpha(img) ==
    \A p \in PixelsOf(img) : Alpha(img.px[p[2]][p[1]]) \in {0, 255}

\* C19: after the cleaner, its despeckler pass included, every pixel of the
\* image has alpha 0 or alpha 255.
C19_AlphaBinaryAfterCleanup ==
    /\ phase = "cleaned" => BinaryAlpha(cleaned_image) /\ cleaned_image = final_img
    /\ phase = "saved" => BinaryAlpha(final_img)

\* C19 witness: the cleaner has finished on an image whose resampled alpha
\* had values on both sides of the cut, and whose despeckler pass rewrote a
\* pixel
C19_CleanedWithRewrite ==
    /\ phase = "cleaned"
    /\ pushed[2] # cleaned_image
    /\ \E p \in PixelsOf(cleaned_image), q \in PixelsOf(cleaned_image) :
          /\ IsInterior(cleaned_image, p[1], p[2])
          /\ Alpha(cleaned_image.px[p[2]][p[1]]) = 255
          /\ Alpha(cleaned_image.px[q[2]][q[1]]) = 0
          /\ cleaned_image.px[q[2]][q[1]] # ZERO

----------------------------------------------------------------------------
(* The parameters of the cleaner: ask_number as clean_sprite calls it.  A     *)
(* number is held in tenths, so that 0.5 is 5 and 2048 is 20480.              *)

\* the four prompts of clean_sprite: default, min_val, max_val, is_float
CleanPrompts ==
    << [default |-> 5120, min_val |-> 320, max_val |-> 20480, is_float |-> FALSE],
       [default |-> 160, min_val |-> 40, max_val |-> 2560, is_float |-> FALSE],
       [default |-> 12, min_val |-> 5, max_val |-> 20, is_float |-> TRUE],
       [default |-> 12, min_val |-> 5, max_val |-> 20, is_float |-> TRUE] >>

\* the lines typed at a prompt: nothing, a decimal number, "nan", "inf", or
\* text that is no number
Answers ==
    {[text |-> t, tenths |-> 0] : t \in {"", "nan", "inf", "abc"}}
        \cup {[text |-> "number", tenths |-> n] :
                n \in {4, 5, 15, 20, 21, 40, 310, 320, 2560, 2570, 20480, 20490}}

\* one pass of the loop of ask_number: [returned, value].  float(answer) or
\* int(answer) raises ValueError for text that is no number; int takes digits
\* only, float takes "nan" and "inf" as well.  A comparison of Python floats
\* with nan is false, and inf is above every number.
AskNumberOnce(answer, prompt) ==
    LET parses ==
            \/ answer.text = "number" /\ (prompt.is_float \/ answer.tenths % 10 = 0)
            \/ answer.text \in {"nan", "inf"} /\ prompt.is_float
        value == [kind |-> answer.text, tenths |-> answer.tenths]
        below_min == value.kind = "number" /\ value.tenths < prompt.min_val
        above_max == \/ value.kind = "inf"
                     \/ value.kind = "number" /\ value.tenths > prompt.max_val
    IN  IF answer.text = ""
        THEN [returned |-> TRUE,
              value |-> [kind |-> "number", tenths |-> prompt.default]]
        ELSE IF ~parses THEN [returned |-> FALSE, value |-> value]
        ELSE IF below_min THEN [returned |-> FALSE, value |-> value]
        ELSE IF above_max THEN [returned |-> FALSE, value |-> value]
        ELSE [returned |-> TRUE, value |-> value]

\* a line typed at the current prompt of clean_sprite; after the fourth value
\* the image is opened and the cleaner runs
AskNumber ==
    /\ phase = "asking"
    /\ \E answer \in Answers :
          LET asked == AskNumberOnce(answer, CleanPrompts[Len(params) + 1])
          IN  /\ params' = IF asked.returned THEN Append(params, asked.value)
                           ELSE params
              /\ IF asked.returned /\ Len(params) = 3
                 THEN phase' = "loaded" /\ final_img' \in LoadedImages
                 ELSE UNCHANGED <<phase, final_img>>
    /\ UNCHANGED <<cleaned_image, rows, cols, sprite_width, sprite_height,
                   docVars, uiVars, histVars, alignment_done, frames, exported,
                   log>>

SpecParams == InitPipeline(NoImage, "asking") /\ [][AskNumber]_vars

\* C21: the cleaner never runs with a parameter outside its range: the target
\* width is in [32, 2048], the number of colours in [4, 256], contrast and
\* saturation in [0.5, 2.0].
C21_ParamsInRange ==
    phase = "loaded" =>
        \A i \in 1..4 :
            /\ params[i].kind = "number"
            /\ CleanPrompts[i].min_val <= params[i].tenths
            /\ params[i].tenths <= CleanPrompts[i].max_val

----------------------------------------------------------------------------
(* The whole run: properties.                                                 *)

\* C23: the edits of a session cancelled with Escape or by closing the
\* window reach no exported file: when every session of a run ended that
\* way, whatever the run has written holds the canvas as it was before the
\* first session.
C23_CancelledEditsNotExported ==
    LET opens == {i \in DOMAIN log : log[i] = "interactive_alignment_tool"}
    IN  IF phase # "exported" THEN exported = EmptyDict
        ELSE (\A i \in opens : log[i + 1] \in {"ESCAPE", "QUIT"})
             => exported \in {SeparateFiles(StartCanvas), SheetFiles(StartCanvas)}

\* C24: every editing session, the one entered on a return from the preview
\* included, starts with a sprite cache captured at that moment from the
\* canvas it starts on.
C24_CacheCapturedPerSession ==
    [][OpenTool => sprite_cache' = CacheSprites(aligned_image)]_vars

\* C25: the stages of a run follow one another as: cleanup (or the sheet as it
\* is), grid dimensions, auto-align, cell-artifact clean, then editor session,
\* slice and preview, again from the editor session after each return from
\* the preview, and the export after a preview that was accepted; auto-align
\* and the clean after it occur once, before the first session.
C25_StagesInOrder ==
    LET after(i) ==
            CASE log[i] \in {"clean_sprite", "open"} -> {"get_grid_dimensions"}
              [] log[i] = "get_grid_dimensions" -> {"auto_align_sprites"}
              [] log[i] = "auto_align_sprites" -> {"clean_cell_artifacts"}
              [] log[i] = "clean_cell_artifacts" -> {"interactive_alignment_tool"}
              [] log[i] = "interactive_alignment_tool" -> EndEvents
              [] log[i] = "slice_sprite_sheet" -> {"preview_animations"}
              [] log[i] = "preview_animations" -> EndEvents \cup {"a"}
              [] log[i] = "a" -> {"interactive_alignment_tool"}
              [] log[i] = "export_sprite_sheet" -> {}
              [] log[i] \in EndEvents ->
                    IF log[i - 1] = "interactive_alignment_tool"
                    THEN {"slice_sprite_sheet"} ELSE {"export_sprite_sheet"}
    IN  /\ log # <<>> => log[1] \in {"clean_sprite", "open"}
        /\ \A i \in 1..(Len(log) - 1) : log[i + 1] \in after(i)
        /\ Cardinality({i \in DOMAIN log : log[i] = "auto_align_sprites"}) <= 1
        /\ phase = "editor" => alignment_done
        /\ phase = "exported" <=> (log # <<>> /\ log[Len(log)] = "export_sprite_sheet")

\* C25 witness: a run has exported after a return from the preview to the
\* alignment tool, a second session and a second preview
C25_ExportedAfterReturn ==
    /\ phase = "exported"
    /\ exported # EmptyDict
    /\ \E i \in DOMAIN log : log[i] = "a"

\* C26: the separate-files export writes a file for a cell exactly when the
\* cell holds a pixel with alpha > 0, under the name of its row and column.
C26_OneFilePerPopulatedCell ==
    (phase = "exported" /\ <<"sheet">> \notin DOMAIN exported) =>
        DOMAIN exported =
            {<<"sprite", c[1], c[2]>> :
                c \in {d \in Cells : ~IsEmpty(CellOf(aligned_image, d[1], d[2]))}}

----------------------------------------------------------------------------
(* The editor: eraser mode, the selection and the offset keys.                *)

\* C27: in every state of a session, eraser mode on implies that no cell is
\* selected: K_e clears the selection when it turns the mode on and a click
\* in eraser mode selects nothing.
C27_EraserMeansNoSelection ==
    eraser_mode => selected_cell = None

\* C27 witness: eraser mode is on, with the button down after a click on the
\* canvas, in a session in which a cell had been selected and moved
C27_ErasingAfterSelection ==
    /\ phase = "editor"
    /\ eraser_mode /\ mouse_pressed
    /\ selected_cell = None
    /\ sprite_offsets # AutoAlign(cleaned_image).offsets

\* C28: K_e pressed twice with eraser mode off ends with eraser mode off and
\* the selection as it was: the selected cell when one was selected, none
\* when none was.
C28_ToggleTwiceRestores ==
    (phase = "editor" /\ running /\ ~eraser_mode) =>
        LET on == EraserKey(eraser_mode, selected_cell)
            off == EraserKey(on.eraser_mode, on.selected_cell)
        IN  /\ on.eraser_mode
            /\ ~off.eraser_mode
            /\ off.selected_cell = selected_cell

\* C29: with a cell selected and eraser mode off, Left and Right subtract
\* and add 1 (5 with Shift) on the x offset of the cell, Up and Down on its y
\* offset; the other component and the offsets of the other cells stay, and
\* the canvas is rebuilt from the cache and the new offsets (the rebuild that
\* raises ends the program with the offset stored).
C29_ArrowMovesOneComponent ==
    [][\A key \in {"LEFT", "RIGHT", "UP", "DOWN"}, shift \in BOOLEAN :
          OffsetKeyOn(key, shift) =>
              LET off == DictGet(sprite_offsets, selected_cell)
                  by == IF shift THEN 5 ELSE 1
              IN  /\ sprite_offsets'[selected_cell] =
                        CASE key = "LEFT"  -> <<off[1] - by, off[2]>>
                          [] key = "RIGHT" -> <<off[1] + by, off[2]>>
                          [] key = "UP"    -> <<off[1], off[2] - by>>
                          [] key = "DOWN"  -> <<off[1], off[2] + by>>
                  /\ DOMAIN sprite_offsets' = DOMAIN sprite_offsets \cup {selected_cell}
                  /\ \A c \in DOMAIN sprite_offsets \ {selected_cell} :
                        sprite_offsets'[c] = sprite_offsets[c]
                  /\ IF Compose(aligned_image, sprite_cache, sprite_offsets').ok
                     THEN /\ aligned_image' = RebuiltCanvas(sprite_cache, sprite_offsets')
                          /\ phase' = "editor"
                     ELSE phase' = "crashed"]_vars

\* C29 witness: the sprite of the selected cell stands 5 pixels to the right
\* of where alignment put it, on a canvas rebuilt with it there
C29_MovedFiveRight ==
    /\ phase = "editor"
    /\ selected_cell # None /\ selected_cell \in DOMAIN sprite_offsets
    /\ sprite_offsets[selected_cell] =
          <<DictGet(AutoAlign(cleaned_image).offsets, selected_cell)[1] + 5,
            DictGet(AutoAlign(cleaned_image).offsets, selected_cell)[2]>>
    /\ aligned_image = RebuiltCanvas(sprite_cache, sprite_offsets)
    /\ aligned_image # StartCanvas

\* C30: with a cell that holds a sprite selected, C sets the x offset that
\* centres the sprite in the cell, B the y offset that puts the sprite's
\* bottom edge on the cell's bottom edge, T the y offset 0 that puts its top
\* edge on the cell's top edge; the other component stays.
C30_ShortcutsAlignSprite ==
    [][\A key \in {"c", "b", "t"} :
          (OffsetKeyOn(key, FALSE) /\ ~IsEmpty(sprite_cache[selected_cell])) =>
              LET off == DictGet(sprite_offsets, selected_cell)
                  sprite == SpriteOf(sprite_cache[selected_cell])
              IN  sprite_offsets'[selected_cell] =
                      CASE key = "c" -> <<(sprite_width - sprite.w) \div 2, off[2]>>
                        [] key = "b" -> <<off[1], sprite_height - sprite.h>>
                        [] key = "t" -> <<off[1], 0>>]_vars

\* C31: every key (row, col) of the offsets satisfies 0 <= row < rows and
\* 0 <= col < cols, whatever clicks, inside the grid or outside it, and
\* offset keys occur.
C31_OffsetKeysInGrid ==
    \A key \in DOMAIN sprite_offsets :
        /\ 0 <= key[1] /\ key[1] < rows
        /\ 0 <= key[2] /\ key[2] < cols

\* C31 witness: after a click, a key has stored an offset for a cell that
\* alignment had left without one
C31_OffsetForEmptyCell ==
    /\ phase = "editor"
    /\ mouse_pressed
    /\ selected_cell # None
    /\ selected_cell \in DOMAIN sprite_offsets
    /\ selected_cell \notin DOMAIN AutoAlign(cleaned_image).offsets

\* C32: an eraser press sets the lock to the cell that holds the image pixel
\* under the pointer (to none outside the grid), every drag point of the
\* stroke leaves the lock as it is, a release clears it, and the canvas and
\* the cache change on a step that is no press, no undo and no offset key
\* only with the button down, eraser mode on and a lock set.
C32_LockFollowsStroke ==
    [][/\ \A p \in ImagePoints :
             (pushed' # pushed /\ ErasePressAt(PointerAt(p)[1], PointerAt(p)[2])) =>
                 current_erase_cell' =
                     IF /\ 0 <= p[1] /\ p[1] < cols * sprite_width
                        /\ 0 <= p[2] /\ p[2] < rows * sprite_height
                     THEN <<p[2] \div sprite_height, p[1] \div sprite_width>>
                     ELSE None
       /\ (pushed' = pushed /\ eraser_size' = eraser_size /\ EraseDrag(TRUE, 1))
          => current_erase_cell' = current_erase_cell
       /\ Release => current_erase_cell' = None /\ ~mouse_pressed'
       /\ (/\ phase = "editor"
           /\ aligned_image' # aligned_image \/ sprite_cache' # sprite_cache
           /\ pushed' = pushed
           /\ ~OffsetStep)
          => mouse_pressed /\ eraser_mode /\ current_erase_cell # None]_vars

\* C32 witness: in a stroke locked to a cell, with the brush as it was at the
\* start of the session and the offsets as aligned, the canvas is not one a
\* press alone leaves: a drag point has erased more of the locked cell
C32_DraggedInLockedCell ==
    /\ phase = "editor"
    /\ mouse_pressed /\ eraser_mode /\ current_erase_cell # None
    /\ Len(pushed) = 1 /\ edits = 2
    /\ eraser_size = ERASER_INIT
    /\ sprite_offsets = AutoAlign(cleaned_image).offsets
    /\ \A pos \in Pointers :
          aligned_image #
              EraseAtPosition(pushed[1], sprite_cache, pos[1] - BORDER_X,
                              pos[2] - BORDER_Y, Scale(cleaned_image), eraser_size,
                              current_erase_cell).img

\* C33: the brush radius is within 1..20 before and after every step, and a
\* step that changes it changes it by 1 and changes nothing of the canvas,
\* the cache, the offsets, the undo stack, the selection, the eraser mode,
\* the button and the lock.
C33_RadiusInRange ==
    [][/\ eraser_size \in 1..20
       /\ eraser_size' \in 1..20
       /\ eraser_size' # eraser_size =>
             /\ eraser_size' \in {eraser_size - 1, eraser_size + 1}
             /\ UNCHANGED <<aligned_image, sprite_cache, sprite_offsets, undo_stack,
                            selected_cell, eraser_mode, mouse_pressed,
                            current_erase_cell>>]_vars

\* C33 witness: the radius stands at 20 with a cell selected
C33_LargestBrush ==
    /\ phase = "editor"
    /\ eraser_size = 20
    /\ selected_cell # None

\* C34: an eraser press on a pixel of the canvas that lies in no cell of the
\* grid sets no lock and leaves every pixel of every cell as it was.
C34_StripPressSparesCells ==
    [][\A p \in ImagePoints :
          (/\ 0 <= p[1] /\ p[1] < cleaned_image.w
           /\ 0 <= p[2] /\ p[2] < cleaned_image.h
           /\ p[1] >= cols * sprite_width \/ p[2] >= rows * sprite_height
           /\ pushed' # pushed
           /\ ErasePressAt(PointerAt(p)[1], PointerAt(p)[2]))
          => /\ current_erase_cell' = None
             /\ \A c \in Cells :
                   CellOf(aligned_image', c[1], c[2]) = CellOf(aligned_image, c[1], c[2])]_vars

\* C35: a stroke locked to a cell leaves the cache entry of every other cell
\* as it was; the sprite pixels of the locked cell's entry after it are
\* pixels the entry held before it, and every pixel the entry held is still
\* in it unless the brush cleared it on the canvas; stated for the first
\* point of the first stroke that is on the undo history.  (Every opaque
\* pixel of a sheet has a colour of its own, so a pixel is known by its
\* value.)
C35_StrokePatchesOwnEntry ==
    [][(pushed = <<>> /\ EraseStep /\ current_erase_cell' # None) =>
          LET opaque(cell) ==
                  {cell.px[p[2]][p[1]] : p \in (0..(cell.w - 1)) \X (0..(cell.h - 1))}
                      \ {v \in {cell.px[p[2]][p[1]] :
                                    p \in (0..(cell.w - 1)) \X (0..(cell.h - 1))} :
                              Alpha(v) = 0}
              cleared == {aligned_image.px[p[2]][p[1]] :
                            p \in {q \in PixelsOf(aligned_image) :
                                      aligned_image'.px[q[2]][q[1]]
                                          # aligned_image.px[q[2]][q[1]]}}
              before == opaque(sprite_cache[current_erase_cell'])
              after == opaque(sprite_cache'[current_erase_cell'])
          IN  /\ \A c \in Cells \ {current_erase_cell'} :
                    sprite_cache'[c] = sprite_cache[c]
              /\ after \subseteq before
              /\ before \ cleared \subseteq after]_vars

\* C36: an undo leaves the offsets, the selection, the eraser mode, the brush
\* radius, the button and the lock as they were, the undo stack one entry
\* shorter when it held a snapshot, and the canvas that snapshot; with no
\* snapshot it changes nothing.
C36_UndoFrame ==
    [][Undo =>
          /\ UNCHANGED <<sprite_offsets, selected_cell, eraser_mode, eraser_size,
                         mouse_pressed, current_erase_cell>>
          /\ IF undo_stack # <<>>
             THEN /\ Len(undo_stack') = Len(undo_stack) - 1
                  /\ aligned_image' = undo_stack[Len(undo_stack)]
             ELSE UNCHANGED <<aligned_image, sprite_cache, undo_stack>>]_vars

\* C36 witness: a stroke has been undone after a sprite was moved: the canvas
\* is again the one of the session's start, with nothing left to undo, a
\* cell selected and its offset not the one alignment gave it
C36_UndoneAfterNudge ==
    /\ phase = "editor"
    /\ undo_stack = <<>> /\ edits = 2
    /\ selected_cell # None /\ ~eraser_mode
    /\ selected_cell \in DOMAIN AutoAlign(cleaned_image).offsets
    /\ sprite_offsets[selected_cell] # AutoAlign(cleaned_image).offsets[selected_cell]
    /\ aligned_image = StartCanvas
    /\ aligned_image # RebuiltCanvas(sprite_cache, sprite_offsets)

\* C37: in a session of clicks and offset keys, with no eraser stroke and
\* no undo, the canvas is the one the cache of the session's start and the
\* offsets give, and it is the canvas of the session's start whenever every
\* cell's offset is the one alignment gave.
C37_CanvasFollowsOffsets ==
    phase = "editor" =>
        /\ sprite_cache = CacheSprites(StartCanvas)
        /\ aligned_image = RebuiltCanvas(sprite_cache, sprite_offsets)
        /\ LET auto == AutoAlign(cleaned_image).offsets
           IN  (\A c \in DOMAIN auto : sprite_offsets[c] = auto[c])
               => aligned_image = StartCanvas

\* C37 witness: offset keys have been pressed on a cell that holds a sprite,
\* the last ones taking back the first, and the canvas is again the one of
\* the session's start
C37_NudgedThereAndBack ==
    /\ phase = "editor"
    /\ edits >= 2
    /\ selected_cell \in DOMAIN AutoAlign(cleaned_image).offsets
    /\ sprite_offsets = AutoAlign(cleaned_image).offsets
    /\ aligned_image = StartCanvas

----------------------------------------------------------------------------
(* Alignment and the cleaner on their own: further properties.                *)

\* C38: the offsets alignment gives a non-empty cell satisfy 0 <= offsetX <=
\* cellWidth - spriteWidth and 0 <= offsetY <= cellHeight - spriteHeight, the
\* sprite is no wider than its cell, and the cell's region of the aligned
\* canvas holds as many opaque pixels as the cell of the sheet.
C38_AlignedInsideCell ==
    phase = "autoaligned" =>
        \A c \in NonEmptyCells :
            LET b == BBox(CellOf(cleaned_image, c[1], c[2]))
                spriteWidth == b.max_x - b.min_x + 1
                spriteHeight == b.max_y - b.min_y + 1
            IN  /\ spriteWidth <= sprite_width
                /\ 0 <= sprite_offsets[c][1]
                /\ sprite_offsets[c][1] <= sprite_width - spriteWidth
                /\ 0 <= sprite_offsets[c][2]
                /\ sprite_offsets[c][2] <= sprite_height - spriteHeight
                /\ NumOpaque(CellOf(aligned_image, c[1], c[2]))
                      = NumOpaque(CellOf(cleaned_image, c[1], c[2]))

\* C38 witness: a sheet has been aligned in which the sprite of one cell
\* fills its cell, at offset (0, 0), and the sprite of another stands on the
\* bottom of its cell with room above it
C38_FullCellAndGrounded ==
    /\ phase = "autoaligned"
    /\ \E c \in NonEmptyCells, d \in NonEmptyCells :
          /\ SpriteOf(CellOf(cleaned_image, c[1], c[2])).w = sprite_width
          /\ SpriteOf(CellOf(cleaned_image, c[1], c[2])).h = sprite_height
          /\ sprite_height > 1
          /\ sprite_offsets[c] = <<0, 0>>
          /\ sprite_offsets[d][2] > 0
          /\ sprite_offsets[d][2]
                = sprite_height - SpriteOf(CellOf(cleaned_image, d[1], d[2])).h

\* C39: the cleaner returns the count 0 and leaves every pixel with alpha > 0
\* that lies in a cell of the grid as it was.
C39_CleanerKeepsOpaque ==
    [][CleanArtifacts =>
          /\ CleanCellArtifacts(aligned_image).removed = 0
          /\ \A p \in PixelsOf(aligned_image) :
                (/\ p[1] < cols * sprite_width /\ p[2] < rows * sprite_height
                 /\ Alpha(aligned_image.px[p[2]][p[1]]) > 0)
                => aligned_image'.px[p[2]][p[1]] = aligned_image.px[p[2]][p[1]]]_vars

\* C39 witness: the cleaner has run once on a canvas with an opaque pixel in
\* a cell, and has changed a pixel of a cell
C39_TrimmedBesideSprite ==
    /\ phase = "trimmed"
    /\ \E p \in PixelsOf(aligned_image), q \in PixelsOf(aligned_image) :
          /\ p[1] < cols * sprite_width /\ q[1] < cols * sprite_width
          /\ p[2] < rows * sprite_height /\ q[2] < rows * sprite_height
          /\ Alpha(aligned_image.px[p[2]][p[1]]) > 0
          /\ aligned_image.px[q[2]][q[1]] # cleaned_image.px[q[2]][q[1]]

----------------------------------------------------------------------------
(* The two despecklers compared.                                              *)

\* C40: remove_orphan_pixels of sprite_pipeline.py and remove_orphan_pixels
\* of pixel_fixer.py return the same image for every image, the outputs of
\* either among them.
C40_DespecklersAgree ==
    RemoveOrphanPixels(final_img) = FixerRemoveOrphanPixels(final_img)

\* C40 witness: one pass over an image with two adjacent interior pixels has
\* rewritten both, the same way in either implementation
C40_BothRewriteTwo ==
    /\ phase = "despeckled"
    /\ pushed[1].w = 4
    /\ final_img.px[1][1] # pushed[1].px[1][1]
    /\ final_img.px[1][2] # pushed[1].px[1][2]
    /\ final_img = RemoveOrphanPixels(pushed[1])
    /\ final_img = FixerRemoveOrphanPixels(pushed[1])

====
